---- MODULE Spec2Model ----
(***************************************************************************)
(* Verification model of the bundle analyzer (wellofspirit/ClaudeCodeSetup) *)
(* A source buffer is a sequence of one-character strings; offsets are the  *)
(* 0-based offsets of the JavaScript code, so src[k+1] is the character at  *)
(* offset k.  The empty string "" stands for JavaScript's '' (no character).*)
(***************************************************************************)
EXTENDS Integers, Sequences, FiniteSets, TLC

VARIABLES
    pc,          \* position of the running command
    result,      \* the value the command returned
    src,         \* the source buffer the command works on
    \* ---- pattern search / patch validation (find.mjs, match.mjs, patch-check.mjs)
    fn,          \* which analysis runs: "checkPatch", "matchPattern", "findInFunctions"
    pattern,     \* the pattern argument (a sequence of characters)
    regexOpt,    \* options.regex
    idx,         \* literal loop: idx; regex loop: re.lastIndex
    matches,     \* the matches[] array
    \* ---- function boundary scanner (extract-fn.mjs)
    offset,      \* the query offset
    spans,       \* the function forms / the literals and comments the generated program really contains
    funcStart,   \* value returned by findFunctionStart
    extracted,   \* value returned by extractFunction
    \* ---- cross-version diff (diff-fns.mjs)
    map1, map2,  \* the two function maps
    diff,        \* diffFunctions(map1, map2)
    rdiff,       \* diffFunctions(map2, map1)
    \* ---- beautifier (beautify.mjs)
    bst,         \* the locals of beautify(): i, sm, out, offsetMap, indent, ...
    \* ---- AST analyses (scope.mjs, refs.mjs, map.mjs) and the command line (cli.mjs)
    scopes,      \* the scopes[] array built by buildScopeTree
    tree,        \* the AST node under analysis
    cli          \* the command-line process: command, exit code, output files on disk

vars == <<pc, result, src, fn, pattern, regexOpt, idx, matches,
          offset, spans, funcStart, extracted, map1, map2, diff, rdiff, bst,
          scopes, tree, cli>>

----------------------------------------------------------------------------
(* Generic helpers                                                          *)

Min(a, b) == IF a < b THEN a ELSE b
Max(a, b) == IF a > b THEN a ELSE b
Abs(a) == IF a < 0 THEN 0 - a ELSE a

\* JavaScript String.prototype.substring(a, b) on a character sequence
Substring(s, a, b) ==
    LET lo == Min(Max(0, Min(a, b)), Len(s))
        hi == Min(Max(0, Max(a, b)), Len(s))
    IN  SubSeq(s, lo + 1, hi)

\* s[k] of JavaScript: the character at offset k, or "" outside the string
CharAt(s, k) == IF k >= 0 /\ k < Len(s) THEN s[k + 1] ELSE ""

\* does p occur in s at offset k
OccursAt(s, p, k) == k >= 0 /\ k + Len(p) <= Len(s) /\ SubSeq(s, k + 1, k + Len(p)) = p

\* JavaScript String.prototype.indexOf(p, from): the search position is
\* clamped to [0, length]; the empty string is found at the clamped position
IndexOf(s, p, from) ==
    LET start == Min(Max(0, from), Len(s))
        hits == {k \in start..Len(s) : OccursAt(s, p, k)}
    IN  IF hits = {} THEN -1 ELSE CHOOSE k \in hits : \A h \in hits : k <= h

WhiteSpace == {" ", "\t", "\n", "\r"}

Letters == {"a","b","c","d","e","f","g","h","i","j","k","l","m","n","o","p","q",
            "r","s","t","u","v","w","x","y","z",
            "A","B","C","D","E","F","G","H","I","J","K","L","M","N","O","P","Q",
            "R","S","T","U","V","W","X","Y","Z"}
Digits == {"0","1","2","3","4","5","6","7","8","9"}
\* the regex class \w, and the class [\w$]
WordChars == Letters \cup Digits \cup {"_"}
IdentChars == WordChars \cup {"$"}

\* number of characters of s, from offset k on, that belong to class
RECURSIVE RunLength(_, _, _)
RunLength(s, k, class) ==
    IF k < Len(s) /\ s[k + 1] \in class THEN 1 + RunLength(s, k + 1, class) ELSE 0

\* number of trailing characters of s that belong to class
RECURSIVE TrailLength(_, _)
TrailLength(s, class) ==
    IF Len(s) > 0 /\ s[Len(s)] \in class
    THEN 1 + TrailLength(SubSeq(s, 1, Len(s) - 1), class) ELSE 0

TrimEnd(s) == SubSeq(s, 1, Len(s) - TrailLength(s, WhiteSpace))
TrimStart(s) == SubSeq(s, RunLength(s, 0, WhiteSpace) + 1, Len(s))
Trim(s) == TrimStart(TrimEnd(s))

EndsWith(s, p) == Len(s) >= Len(p) /\ SubSeq(s, Len(s) - Len(p) + 1, Len(s)) = p

KwFunction == <<"f","u","n","c","t","i","o","n">>
KwAsync == <<"a","s","y","n","c">>

----------------------------------------------------------------------------
(* Character state machine (state-machine.mjs)                              *)

\* SANY accepts no grave accent inside a string: this token stands for the
\* template-literal delimiter (the one character U+0060)
Backtick == "<backtick>"

S_NORMAL == 0
S_STRING_SINGLE == 1
S_STRING_DOUBLE == 2
S_TEMPLATE == 3
S_REGEX == 4
S_COMMENT_LINE == 5
S_COMMENT_BLOCK == 6

createStateMachine == [state |-> S_NORMAL, escaped |-> FALSE, templateDepth |-> 0]

RegexContextChars ==
    {"=", "(", ":", ";", ",", "!", "&", "|", "?", "{", "[", "+", "-", ">", "~", "%", "^"}

\* isRegexContext taking every position for a regex position
isRegexContext_IgnoresPrev(prevNonWS) == TRUE

isRegexContext(prevNonWS) ==
    IF prevNonWS = "" THEN TRUE
    ELSE prevNonWS \in RegexContextChars \/ prevNonWS = "\n"

isInCode(state) == state = S_NORMAL

\* EscapeArms letting a backslash arm the escape in every mode
EscapeArms_AnyMode(sm, ch) == ch = "\\"

\* the test of the second early return of advanceState
EscapeArms(sm, ch) ==
    ch = "\\" /\ sm.state # S_COMMENT_LINE /\ sm.state # S_COMMENT_BLOCK
               /\ sm.state # S_NORMAL

\* AdvanceTemplate closing the template at any nesting depth
AdvanceTemplate_AnyDepth(sm, ch, nextCh) ==
    IF ch = "\\" THEN [sm EXCEPT !.escaped = TRUE]
    ELSE IF ch = Backtick THEN [sm EXCEPT !.state = S_NORMAL]
    ELSE IF ch = "$" /\ nextCh = "{"
         THEN [sm EXCEPT !.templateDepth = sm.templateDepth + 1]
    ELSE IF ch = "}" /\ sm.templateDepth > 0
         THEN [sm EXCEPT !.templateDepth = sm.templateDepth - 1]
    ELSE sm

\* case S_TEMPLATE of advanceState
AdvanceTemplate(sm, ch, nextCh) ==
    IF ch = "\\" THEN [sm EXCEPT !.escaped = TRUE]
    ELSE IF ch = Backtick /\ sm.templateDepth = 0 THEN [sm EXCEPT !.state = S_NORMAL]
    ELSE IF ch = "$" /\ nextCh = "{"
         THEN [sm EXCEPT !.templateDepth = sm.templateDepth + 1]
    ELSE IF ch = "}" /\ sm.templateDepth > 0
         THEN [sm EXCEPT !.templateDepth = sm.templateDepth - 1]
    ELSE sm

\* advanceState without the first early return: the escape flag is never consumed
advanceState_EscapeIgnored(sm, ch, nextCh, prevNonWS) ==
    IF EscapeArms(sm, ch)
    THEN [sm EXCEPT !.escaped = TRUE]
    ELSE CASE sm.state = S_NORMAL ->
                 IF ch = "'" THEN [sm EXCEPT !.state = S_STRING_SINGLE]
                 ELSE IF ch = "\"" THEN [sm EXCEPT !.state = S_STRING_DOUBLE]
                 ELSE IF ch = Backtick THEN [sm EXCEPT !.state = S_TEMPLATE, !.templateDepth = 0]
                 ELSE IF ch = "/" /\ nextCh = "/" THEN [sm EXCEPT !.state = S_COMMENT_LINE]
                 ELSE IF ch = "/" /\ nextCh = "*" THEN [sm EXCEPT !.state = S_COMMENT_BLOCK]
                 ELSE IF ch = "/" /\ isRegexContext(prevNonWS) THEN [sm EXCEPT !.state = S_REGEX]
                 ELSE sm
           [] sm.state = S_STRING_SINGLE ->
                 IF ch = "'" THEN [sm EXCEPT !.state = S_NORMAL] ELSE sm
           [] sm.state = S_STRING_DOUBLE ->
                 IF ch = "\"" THEN [sm EXCEPT !.state = S_NORMAL] ELSE sm
           [] sm.state = S_TEMPLATE -> AdvanceTemplate(sm, ch, nextCh)
           [] sm.state = S_REGEX ->
                 \* the backslash case is taken by the escape test above
                 IF ch = "/" THEN [sm EXCEPT !.state = S_NORMAL] ELSE sm
           [] sm.state = S_COMMENT_LINE ->
                 IF ch = "\n" THEN [sm EXCEPT !.state = S_NORMAL] ELSE sm
           [] sm.state = S_COMMENT_BLOCK ->
                 IF ch = "*" /\ nextCh = "/" THEN [sm EXCEPT !.state = S_NORMAL] ELSE sm

\* advanceState mutates sm; the operator returns the mutated machine
advanceState(sm, ch, nextCh, prevNonWS) ==
    IF sm.escaped THEN [sm EXCEPT !.escaped = FALSE]
    ELSE IF EscapeArms(sm, ch)
    THEN [sm EXCEPT !.escaped = TRUE]
    ELSE CASE sm.state = S_NORMAL ->
                 IF ch = "'" THEN [sm EXCEPT !.state = S_STRING_SINGLE]
                 ELSE IF ch = "\"" THEN [sm EXCEPT !.state = S_STRING_DOUBLE]
                 ELSE IF ch = Backtick THEN [sm EXCEPT !.state = S_TEMPLATE, !.templateDepth = 0]
                 ELSE IF ch = "/" /\ nextCh = "/" THEN [sm EXCEPT !.state = S_COMMENT_LINE]
                 ELSE IF ch = "/" /\ nextCh = "*" THEN [sm EXCEPT !.state = S_COMMENT_BLOCK]
                 ELSE IF ch = "/" /\ isRegexContext(prevNonWS) THEN [sm EXCEPT !.state = S_REGEX]
                 ELSE sm
           [] sm.state = S_STRING_SINGLE ->
                 IF ch = "'" THEN [sm EXCEPT !.state = S_NORMAL] ELSE sm
           [] sm.state = S_STRING_DOUBLE ->
                 IF ch = "\"" THEN [sm EXCEPT !.state = S_NORMAL] ELSE sm
           [] sm.state = S_TEMPLATE -> AdvanceTemplate(sm, ch, nextCh)
           [] sm.state = S_REGEX ->
                 \* the backslash case is taken by the escape test above
                 IF ch = "/" THEN [sm EXCEPT !.state = S_NORMAL] ELSE sm
           [] sm.state = S_COMMENT_LINE ->
                 IF ch = "\n" THEN [sm EXCEPT !.state = S_NORMAL] ELSE sm
           [] sm.state = S_COMMENT_BLOCK ->
                 IF ch = "*" /\ nextCh = "/" THEN [sm EXCEPT !.state = S_NORMAL] ELSE sm

\* the update of prevNonWS every scanning loop performs after advanceState
NextPrevNonWS(prevNonWS, ch) == IF ch \notin WhiteSpace THEN ch ELSE prevNonWS

----------------------------------------------------------------------------
(* Beautifier (beautify.mjs)                                                *)

\* '  '.repeat(n)
RECURSIVE Spaces(_)
Spaces(n) == IF n <= 0 THEN <<>> ELSE <<" ", " ">> \o Spaces(n - 1)

\* the characters of the buffer at the offsets held in line
LineText(s, line) == [k \in 1..Len(line) |-> s[line[k] + 1]]

\* The locals of beautify().  currentLine holds, for every character pushed, the
\* offset it was copied from (the pushed character is the buffer's character at
\* that offset).  firstCopied is a history field: for every emitted line, the
\* offset of its first character that survives trimStart.
BInit == [i |-> 0, sm |-> createStateMachine, out |-> <<>>, offsetMap |-> <<>>,
          indent |-> 0, lineStart |-> TRUE, currentLine |-> <<>>, prevNonWS |-> "",
          lineOrigOffset |-> 0, firstCopied |-> <<>>]

\* flushLine recording the offset the loop has reached, not the line's origin
flushLine_ScanOffset(s, st) ==
    LET text == LineText(s, st.currentLine)
        lead == RunLength(text, 0, WhiteSpace)
        cleared == [st EXCEPT !.currentLine = <<>>, !.lineStart = TRUE]
    IN  IF Len(Trim(text)) > 0
        THEN [cleared EXCEPT
                !.out = Append(st.out, Spaces(Max(0, st.indent)) \o TrimStart(text)),
                !.offsetMap = Append(st.offsetMap, st.i),
                !.firstCopied = Append(st.firstCopied, st.currentLine[lead + 1])]
        ELSE cleared

flushLine(s, st) ==
    LET text == LineText(s, st.currentLine)
        lead == RunLength(text, 0, WhiteSpace)
        cleared == [st EXCEPT !.currentLine = <<>>, !.lineStart = TRUE]
    IN  IF Len(Trim(text)) > 0
        THEN [cleared EXCEPT
                !.out = Append(st.out, Spaces(Max(0, st.indent)) \o TrimStart(text)),
                !.offsetMap = Append(st.offsetMap, st.lineOrigOffset),
                !.firstCopied = Append(st.firstCopied, st.currentLine[lead + 1])]
        ELSE cleared

\* BStep without currentLine.push('}') after the pop
BStep_NoRepush(s, st) ==
    LET i == st.i
        ch == s[i + 1]
        nextCh == CharAt(s, i + 1)
        sm2 == advanceState(st.sm, ch, nextCh, st.prevNonWS)
        st1 == [st EXCEPT !.i = i + 1, !.sm = sm2,
                          !.prevNonWS = NextPrevNonWS(st.prevNonWS, ch),
                          !.lineOrigOffset = IF st.lineStart THEN i ELSE st.lineOrigOffset,
                          !.lineStart = FALSE]
    IN  IF ch = "\n" THEN flushLine(s, st1)
        ELSE LET st2 == [st1 EXCEPT !.currentLine = Append(st1.currentLine, i)]
             IN  IF ~isInCode(sm2.state) THEN st2
                 ELSE IF ch = "{"
                 THEN flushLine(s, [st2 EXCEPT !.indent = st2.indent + 1])
                 ELSE IF ch = "}"
                 THEN LET popped == [st2 EXCEPT !.currentLine = st1.currentLine]
                          f1 == flushLine(s, popped)
                          f2 == [f1 EXCEPT !.indent = Max(0, f1.indent - 1)]
                      IN  flushLine(s, f2)
                 ELSE IF ch = ";" THEN flushLine(s, st2)
                 ELSE st2

\* one iteration (offset st.i) of the loop of beautify()
BStep(s, st) ==
    LET i == st.i
        ch == s[i + 1]
        nextCh == CharAt(s, i + 1)
        sm2 == advanceState(st.sm, ch, nextCh, st.prevNonWS)
        st1 == [st EXCEPT !.i = i + 1, !.sm = sm2,
                          !.prevNonWS = NextPrevNonWS(st.prevNonWS, ch),
                          !.lineOrigOffset = IF st.lineStart THEN i ELSE st.lineOrigOffset,
                          !.lineStart = FALSE]
    IN  IF ch = "\n" THEN flushLine(s, st1)
        ELSE LET st2 == [st1 EXCEPT !.currentLine = Append(st1.currentLine, i)]
             IN  IF ~isInCode(sm2.state) THEN st2
                 ELSE IF ch = "{"
                 THEN flushLine(s, [st2 EXCEPT !.indent = st2.indent + 1])
                 ELSE IF ch = "}"
                 THEN LET popped == [st2 EXCEPT !.currentLine = st1.currentLine]
                          f1 == flushLine(s, popped)
                          f2 == [f1 EXCEPT !.indent = Max(0, f1.indent - 1),
                                           !.currentLine = Append(f1.currentLine, i)]
                      IN  flushLine(s, f2)
                 ELSE IF ch = ";" THEN flushLine(s, st2)
                 ELSE st2

\* the statement after the loop: if (currentLine.length > 0) flushLine()
BFinish(s, st) == IF Len(st.currentLine) > 0 THEN flushLine(s, st) ELSE st

RECURSIVE BRun(_, _)
BRun(s, st) ==
    IF st.i < Len(s)
    THEN LET nxt == BStep(s, st)
         IN  IF nxt = nxt THEN BRun(s, nxt) ELSE st
    ELSE BFinish(s, st)

\* Array.prototype.join
RECURSIVE Join(_, _)
Join(lines, sep) ==
    IF Len(lines) = 0 THEN <<>>
    ELSE IF Len(lines) = 1 THEN lines[1]
    ELSE lines[1] \o sep \o Join(Tail(lines), sep)

\* the value beautify(s) returns
beautify(s) ==
    LET st == BRun(s, BInit)
    IN  [text |-> Join(st.out, <<"\n">>), offsetMap |-> st.offsetMap]

----------------------------------------------------------------------------
(* Function boundary scanner (extract-fn.mjs)                               *)

\* the locality window of findFunctionStart: scanEnd = min(length, offset + 500000)
ScanHorizon == 500000

NoFunc == [sigStart |-> -1, braceOffset |-> -1, end |-> -1, found |-> FALSE]

\* pendingFuncStart after the test for the keyword "function" at offset j
PendingAfterFunctionKw(s, j, pending) ==
    IF s[j + 1] = "f" /\ Substring(s, j, j + 8) = KwFunction
    THEN LET preBuf == Substring(s, Max(0, j - 10), j)
             ws == TrailLength(preBuf, WhiteSpace)
         IN  \* preBuf.match(/async\s*$/)
             IF EndsWith(SubSeq(preBuf, 1, Len(preBuf) - ws), KwAsync)
             THEN j - (5 + ws) ELSE j
    ELSE pending

\* pendingFuncStart after the test for an async method shorthand at offset j
PendingAfterAsyncMethod(s, j, pending) ==
    IF s[j + 1] = "a" /\ Substring(s, j, j + 5) = KwAsync /\ j > 0
    THEN LET after == Substring(s, j + 5, j + 100)
             ws == RunLength(after, 0, WhiteSpace)
             id == RunLength(after, ws, IdentChars)
             ws2 == RunLength(after, ws + id, WhiteSpace)
             \* after.match(/^\s+([\w$]+)\s*\(/)
             methodMatch == ws >= 1 /\ id >= 1 /\ CharAt(after, ws + id + ws2) = "("
         IN  IF methodMatch /\ SubSeq(after, ws + 1, ws + id) # KwFunction
             THEN j ELSE pending
    ELSE pending

\* the backward scan over a parenthesised parameter list: returns arrowStart
\* as the while loop leaves it (before the final arrowStart++)
RECURSIVE ParenBack(_, _, _)
ParenBack(s, a, depth) ==
    IF a >= 0 /\ depth > 0
    THEN ParenBack(s, a - 1,
                   IF s[a + 1] = ")" THEN depth + 1
                   ELSE IF s[a + 1] = "(" THEN depth - 1 ELSE depth)
    ELSE a

\* pendingFuncStart after the test for "=>" at offset j
PendingAfterArrow(s, j, pending) ==
    IF s[j + 1] = "=" /\ CharAt(s, j + 1) = ">" /\ pending < 0
    THEN LET a1 == j - 1 - TrailLength(SubSeq(s, 1, j), WhiteSpace)
             a2 == IF a1 >= 0 /\ s[a1 + 1] = ")"
                   THEN ParenBack(s, a1 - 1, 1) + 1 ELSE a1
             preBuf == TrimEnd(Substring(s, Max(0, a2 - 10), a2))
         IN  IF EndsWith(preBuf, KwAsync)
             THEN Max(0, a2 - 10) + (Len(preBuf) - 5) ELSE a2
    ELSE pending

FFInit == [sm |-> createStateMachine, prevNonWS |-> "", pending |-> -1,
           stack |-> <<>>, best |-> NoFunc]

\* the closing-brace branch of the loop body of findFunctionStart
FFCloseBrace(st, off, j) ==
    IF Len(st.stack) = 0 THEN st
    ELSE LET entry == st.stack[Len(st.stack)]
             popped == [st EXCEPT !.stack = SubSeq(st.stack, 1, Len(st.stack) - 1)]
         IN  IF entry.sigStart >= 0 /\ off >= entry.sigStart /\ off <= j
                /\ (~st.best.found
                    \/ (j - entry.sigStart) < (st.best.end - st.best.sigStart))
             THEN [popped EXCEPT !.best = [sigStart |-> entry.sigStart,
                                           braceOffset |-> entry.braceOffset,
                                           end |-> j, found |-> TRUE]]
             ELSE popped

\* the head of every scanning loop: advanceState(sm, ch, nextCh, prevNonWS) and
\* the update of prevNonWS
ScanAdvance(s, st, j) ==
    [st EXCEPT !.sm = advanceState(st.sm, s[j + 1], CharAt(s, j + 1), st.prevNonWS),
               !.prevNonWS = NextPrevNonWS(st.prevNonWS, s[j + 1])]

\* the three signature tests of the loop body, in the order of the code
FFDetect(s, st, j) ==
    [st EXCEPT !.pending =
        PendingAfterArrow(s, j,
            PendingAfterAsyncMethod(s, j,
                PendingAfterFunctionKw(s, j, st.pending)))]

\* the two brace tests of the loop body
FFBrace(s, off, st, j) ==
    IF s[j + 1] = "{"
    THEN [st EXCEPT !.stack = Append(st.stack,
                                 [sigStart |-> IF st.pending >= 0 THEN st.pending ELSE -1,
                                  braceOffset |-> j]),
                    !.pending = -1]
    ELSE IF s[j + 1] = "}" THEN FFCloseBrace(st, off, j)
    ELSE st

\* the loop body after advanceState: nothing more outside code
FFInCode(s, off, st, j) ==
    IF ~isInCode(st.sm.state) THEN st ELSE FFBrace(s, off, FFDetect(s, st, j), j)

\* one iteration (offset j) of the scanning loop of findFunctionStart
FFStep(s, off, st, j) == FFInCode(s, off, ScanAdvance(s, st, j), j)

RECURSIVE FFScan(_, _, _, _, _)
\* the comparison makes TLC compute the iteration's result before the next one
FFNext(s, off, nxt, j, scanEnd) ==
    IF nxt = nxt THEN FFScan(s, off, nxt, j, scanEnd) ELSE nxt

FFScan(s, off, st, j, scanEnd) ==
    IF j < scanEnd THEN FFNext(s, off, FFStep(s, off, st, j), j + 1, scanEnd) ELSE st

\* the loop over the entries left on funcStack (functions not closed in the window)
RECURSIVE FFUnclosed(_, _, _, _)
FFUnclosed(stack, k, off, best) ==
    IF k > Len(stack) THEN best
    ELSE LET entry == stack[k]
         IN  FFUnclosed(stack, k + 1, off,
                IF entry.sigStart >= 0 /\ off >= entry.sigStart
                   /\ (~best.found \/ entry.sigStart > best.sigStart)
                THEN [sigStart |-> entry.sigStart, braceOffset |-> entry.braceOffset,
                      end |-> -1, found |-> TRUE]
                ELSE best)

\* bestFunc after the loop over the unclosed entries
FFResult(off, st) == FFUnclosed(st.stack, 1, off, st.best)

FindBestFunc(s, off) ==
    FFResult(off, FFScan(s, off, FFInit, 0, Min(Len(s), off + ScanHorizon)))

\* return bestFunc ? bestFunc.sigStart : -1
BestStart(best) == IF best.found THEN best.sigStart ELSE -1

findFunctionStart(s, off) == BestStart(FindBestFunc(s, off))

findMatchingParen(s, openIdx) ==
    IF openIdx < 0 THEN -1
    ELSE LET Depth(i) == Cardinality({k \in openIdx..i : s[k + 1] = "("})
                         - Cardinality({k \in openIdx..i : s[k + 1] = ")"})
             closers == {i \in openIdx..(Len(s) - 1) :
                            /\ s[i + 1] = ")"
                            /\ Depth(i) = 0
                            /\ \A h \in openIdx..(i - 1) : ~(s[h + 1] = ")" /\ Depth(h) = 0)}
         IN  IF closers = {} THEN -1 ELSE CHOOSE i \in closers : TRUE

\* parseParamList: the raw parameters, split on top-level commas
RECURSIVE ParamSplit(_, _, _, _, _)
ParamSplit(params, i, depth, current, acc) ==
    IF i >= Len(params)
    THEN IF Trim(current) # <<>> THEN Append(acc, Trim(current)) ELSE acc
    ELSE LET ch == params[i + 1]
             d1 == IF ch \in {"{", "[", "("} THEN depth + 1 ELSE depth
             d2 == IF ch \in {"}", "]", ")"} THEN d1 - 1 ELSE d1
         IN  IF ch = "," /\ d2 = 0
             THEN ParamSplit(params, i + 1, d2, <<>>, Append(acc, Trim(current)))
             ELSE ParamSplit(params, i + 1, d2, Append(current, ch), acc)

parseParamList(params) ==
    LET raw == ParamSplit(params, 0, 0, <<>>, <<>>)
    IN  [k \in 1..Len(raw) |-> [index |-> k, raw |-> raw[k]]]

EFInit == [sm |-> createStateMachine, prevNonWS |-> "", parenDepth |-> 0,
           foundParenOpen |-> FALSE, pastParams |-> FALSE, braceDepth |-> 0,
           foundBodyBrace |-> FALSE, funcEnd |-> -1]

\* the loop body of the forward scan after advanceState
EFInCode(s, st, i) ==
    IF ~isInCode(st.sm.state) THEN st
    ELSE IF ~st.pastParams
    THEN IF s[i + 1] = "("
         THEN [st EXCEPT !.foundParenOpen = TRUE, !.parenDepth = st.parenDepth + 1]
         ELSE IF s[i + 1] = ")"
         THEN [st EXCEPT !.parenDepth = st.parenDepth - 1,
                         !.pastParams = st.foundParenOpen /\ st.parenDepth - 1 = 0]
         ELSE st
    ELSE IF s[i + 1] = "{"
    THEN [st EXCEPT !.foundBodyBrace = TRUE, !.braceDepth = st.braceDepth + 1]
    ELSE IF s[i + 1] = "}"
    THEN [st EXCEPT !.braceDepth = st.braceDepth - 1,
                    !.funcEnd = IF st.foundBodyBrace /\ st.braceDepth - 1 = 0
                                THEN i + 1 ELSE -1]
    ELSE st

\* one iteration (offset i) of the forward scan of extractFunction
EFStep(s, st, i) == EFInCode(s, ScanAdvance(s, st, i), i)

RECURSIVE EFScan(_, _, _)
EFNext(s, nxt, i) == IF nxt = nxt THEN EFScan(s, nxt, i) ELSE nxt

EFScan(s, st, i) ==
    IF i < Len(s) /\ st.funcEnd < 0 THEN EFNext(s, EFStep(s, st, i), i + 1) ELSE st

ErrNoFunction == "Could not find enclosing function"
ErrNoEnd == "Could not find function end (unbalanced braces)"

\* extractFunction once the scan has found where the function ends; error |-> ""
\* stands for a return value that has no error property
ExtractSpan(s, fs, funcEnd) ==
    IF funcEnd < 0 THEN [error |-> ErrNoEnd]
    ELSE LET raw == Substring(s, fs, funcEnd)
             parenOpen == IndexOf(raw, <<"(">>, 0)
             parenClose == findMatchingParen(raw, parenOpen)
             bodyBraceIdx == IF parenClose >= 0
                             THEN IndexOf(raw, <<"{">>, parenClose + 1)
                             ELSE IndexOf(raw, <<"{">>, 0)
             params == IF parenOpen >= 0 /\ parenClose >= 0
                       THEN Substring(raw, parenOpen + 1, parenClose)
                       ELSE <<"(","u","n","k","n","o","w","n",")">>
         IN  [error |-> "",
              signature |-> Trim(Substring(raw, 0,
                               IF bodyBraceIdx >= 0 THEN bodyBraceIdx
                               ELSE IndexOf(raw, <<"{">>, 0))),
              start |-> fs, end |-> funcEnd, length |-> funcEnd - fs,
              params |-> params, paramList |-> parseParamList(params),
              beautified |-> beautify(raw).text]

\* extractFunction once findFunctionStart has returned
ExtractFrom(s, fs) ==
    IF fs < 0 THEN [error |-> ErrNoFunction]
    ELSE ExtractSpan(s, fs, EFScan(s, EFInit, fs).funcEnd)

extractFunction(s, charOffset) == ExtractFrom(s, findFunctionStart(s, charOffset))

----------------------------------------------------------------------------
(* Signature extraction (extract-fn.mjs) used by the pattern search         *)

SignatureWindow == 500
SignatureFallback == 80

RECURSIVE ESScan(_, _, _, _, _, _, _)
ESScan(s, fStart, i, sm, prevNonWS, parenDepth, foundParenOpen) ==
    IF i >= Min(Len(s), fStart + SignatureWindow)
    THEN Trim(Substring(s, fStart, fStart + SignatureFallback))
    ELSE LET ch == s[i + 1]
             sm2 == advanceState(sm, ch, CharAt(s, i + 1), prevNonWS)
             prev2 == NextPrevNonWS(prevNonWS, ch)
         IN  IF ~isInCode(sm2.state)
             THEN ESScan(s, fStart, i + 1, sm2, prev2, parenDepth, foundParenOpen)
             ELSE IF ch = "("
             THEN ESScan(s, fStart, i + 1, sm2, prev2, parenDepth + 1, TRUE)
             ELSE IF ch = ")"
             THEN IF foundParenOpen /\ parenDepth - 1 = 0
                  THEN LET afterParams == Substring(s, i + 1, Min(Len(s), i + 20))
                           braceIdx == IndexOf(afterParams, <<"{">>, 0)
                       IN  Trim(Substring(s, fStart,
                                   IF braceIdx >= 0 THEN i + 1 + braceIdx ELSE i + 1))
                  ELSE ESScan(s, fStart, i + 1, sm2, prev2, parenDepth - 1, foundParenOpen)
             ELSE ESScan(s, fStart, i + 1, sm2, prev2, parenDepth, foundParenOpen)

extractSignature(s, fStart) ==
    ESScan(s, fStart, fStart, createStateMachine, "", 0, FALSE)

----------------------------------------------------------------------------
(* Pattern search and patch validation (find.mjs, match.mjs, patch-check.mjs)*)

\* String.prototype.replace(/needle/g, repl) for a literal needle
RECURSIVE ReplaceAll(_, _, _)
ReplaceAll(s, needle, repl) ==
    IF Len(s) = 0 THEN <<>>
    ELSE IF OccursAt(s, needle, 0)
    THEN repl \o ReplaceAll(SubSeq(s, Len(needle) + 1, Len(s)), needle, repl)
    ELSE <<s[1]>> \o ReplaceAll(Tail(s), needle, repl)

ShorthandV == <<"%", "V", "%">>
ShorthandS == <<"%", "S", "%">>
\* the replacement strings as JavaScript evaluates the two string literals
ExpansionV == <<"[", "\\", "w", "$", "]", "+">>
ExpansionS == <<"\"", "(", "?", ":", "[", "^", "\"", "\\", "\\", "\\", "\\", "]", "|",
                "\\", "\\", "\\", "\\", ".", ")", "*", "\"">>

expandShorthands(p) == ReplaceAll(ReplaceAll(p, ShorthandV, ExpansionV), ShorthandS, ExpansionS)

\* new RegExp(expanded, 'g') for the expressions the model feeds it: the empty
\* expression, or one atom (a literal character or the class [\w$]) followed by
\* nothing, * or +.  Anything else the model treats as a SyntaxError.
RegexSpecials == {"*", "+", "?", "(", ")", "[", "]", "{", "}", "|", "\\", "^", "$", "."}
IdentClassText == <<"[", "\\", "w", "$", "]">>

CompileRegExp(e) ==
    LET isClass == Len(e) >= 5 /\ SubSeq(e, 1, 5) = IdentClassText
        isLit == Len(e) >= 1 /\ e[1] \notin RegexSpecials
        rest == IF isClass THEN SubSeq(e, 6, Len(e)) ELSE Tail(e)
        class == IF isClass THEN IdentChars ELSE {e[1]}
    IN  IF e = <<>> THEN [ok |-> TRUE, class |-> {}, quant |-> "empty"]
        ELSE IF ~(isClass \/ isLit) THEN [ok |-> FALSE, class |-> {}, quant |-> "empty"]
        ELSE IF rest = <<>> THEN [ok |-> TRUE, class |-> class, quant |-> "one"]
        ELSE IF rest = <<"*">> THEN [ok |-> TRUE, class |-> class, quant |-> "star"]
        ELSE IF rest = <<"+">> THEN [ok |-> TRUE, class |-> class, quant |-> "plus"]
        ELSE [ok |-> FALSE, class |-> {}, quant |-> "empty"]

\* length of the match of re anchored at offset k, or -1 (quantifiers are greedy)
MatchLen(re, s, k) ==
    LET n == RunLength(s, k, re.class)
    IN  CASE re.quant = "empty" -> 0
          [] re.quant = "one" -> IF n >= 1 THEN 1 ELSE -1
          [] re.quant = "star" -> n
          [] re.quant = "plus" -> IF n >= 1 THEN n ELSE -1

\* RegExp.prototype.exec of a global expression (ECMAScript RegExpBuiltinExec):
\* the search starts at lastIndex and, on success, lastIndex becomes the END of
\* the match; an empty match therefore leaves lastIndex where it was
RegExpExec(re, s, lastIndex) ==
    LET hits == {k \in lastIndex..Len(s) : MatchLen(re, s, k) >= 0}
    IN  IF lastIndex > Len(s) \/ hits = {}
        THEN [found |-> FALSE, index |-> -1, length |-> 0, lastIndex |-> 0]
        ELSE LET k == CHOOSE h \in hits : \A g \in hits : h <= g
             IN  [found |-> TRUE, index |-> k, length |-> MatchLen(re, s, k),
                  lastIndex |-> k + MatchLen(re, s, k)]

StatusOf(n) == IF n = 0 THEN "NOT_FOUND" ELSE IF n = 1 THEN "UNIQUE" ELSE "AMBIGUOUS"

\* isOffsetInCode of patch-check.mjs: drive the state machine up to the offset
CodeContextWindow == 50000

RECURSIVE InCodeScan(_, _, _, _, _)
InCodeScan(s, i, off, sm, prevNonWS) ==
    IF i > off THEN sm
    ELSE LET ch == CharAt(s, i)
         IN  InCodeScan(s, i + 1, off, advanceState(sm, ch, CharAt(s, i + 1), prevNonWS),
                        NextPrevNonWS(prevNonWS, ch))

isOffsetInCode(s, off) ==
    isInCode(InCodeScan(s, Max(0, off - CodeContextWindow), off, createStateMachine, "").state)

\* pattern.match(/\b[A-Za-z_$]{1,3}\b/g) minus the reserved words, for patterns
\* without "$": the maximal runs of word characters that are 1 to 3 letters long
ReservedShort == {<<"v","a","r">>, <<"l","e","t">>, <<"f","o","r">>, <<"i","f">>,
                  <<"o","f">>, <<"i","n">>, <<"d","o">>, <<"n","e","w">>}

ShortIds(p) ==
    {w \in {SubSeq(p, k + 1, k + RunLength(p, k, WordChars)) :
              k \in {j \in 0..(Len(p) - 1) : j = 0 \/ p[j] \notin WordChars}} :
        /\ Len(w) \in 1..3
        /\ \A c \in 1..Len(w) : w[c] \in Letters \cup {"_"}
        /\ w \notin ReservedShort}

WarnShortId == "short-identifier"
WarnNonCode == "non-code-context"

\* the value checkPatch returns once its match loop has ended (no replacement given)
CheckPatchResult(s, p, ms) ==
    [status |-> StatusOf(Len(ms)),
     matchCount |-> Len(ms),
     matches |-> ms,
     warnings |-> (IF ShortIds(p) # {} THEN <<WarnShortId>> ELSE <<>>)
                  \o (IF Len(ms) = 1 /\ ~isOffsetInCode(s, ms[1].offset)
                      THEN <<WarnNonCode>> ELSE <<>>)]

\* the value matchPattern returns (no replacement given)
MatchPatternResult(p, ms) ==
    [status |-> StatusOf(Len(ms)), matchCount |-> Len(ms), matches |-> ms,
     expandedPattern |-> expandShorthands(p)]

\* the value findInFunctions returns: matches grouped by enclosing function,
\* groups sorted by funcStart
TopLevelSignature == "[top-level / unknown]"

RECURSIVE SortedKeys(_)
SortedKeys(keys) ==
    IF keys = {} THEN <<>>
    ELSE LET k == CHOOSE x \in keys : \A y \in keys : x <= y
         IN  <<k>> \o SortedKeys(keys \ {k})

\* const key = funcStart >= 0 ? funcStart : -1
KeyOf(f) == IF f >= 0 THEN f ELSE -1
FuncKey(s, m) == KeyOf(findFunctionStart(s, m.offset))

\* the entry pushed on a group's matches: the match with its +-80 characters of context
Grouped(s, m) ==
    [offset |-> m.offset, matchText |-> m.matchText,
     context |-> Substring(s, Max(0, m.offset - 80),
                              Min(Len(s), m.offset + Len(m.matchText) + 80)),
     contextOffset |-> Max(0, m.offset - 80)]

GroupMatches(s, ms, key) ==
    LET mine == SelectSeq(ms, LAMBDA m : FuncKey(s, m) = key)
    IN  [k \in 1..Len(mine) |-> Grouped(s, mine[k])]

\* the groups in ascending order of funcStart
GroupList(s, ms, keys) ==
    [g \in 1..Len(keys) |->
        [funcStart |-> keys[g],
         signature |-> IF keys[g] >= 0 THEN extractSignature(s, keys[g])
                       ELSE <<TopLevelSignature>>,
         matches |-> GroupMatches(s, ms, keys[g])]]

FindInFunctionsResult(s, ms) ==
    IF Len(ms) = 0
    THEN [matches |-> <<>>, groups |-> <<>>, totalMatches |-> 0, totalFunctions |-> 0]
    ELSE LET groups == GroupList(s, ms, SortedKeys({FuncKey(s, ms[k]) : k \in 1..Len(ms)}))
         IN  [matches |-> ms, groups |-> groups, totalMatches |-> Len(ms),
              totalFunctions |-> Len(groups)]

----------------------------------------------------------------------------
(* Function fingerprint and cross-version diff (diff-fns.mjs)               *)

\* Math.round(n / d) for integers n >= 0, d > 0 (halves round up)
RoundDiv(n, d) == (2 * n + d) \div (2 * d)

sizeBin(size) ==
    LET tenth == Max(1, RoundDiv(size, 10))      \* Math.max(1, Math.round(size * 0.1))
    IN  RoundDiv(size, tenth) * tenth

\* parts.join(':') has five parts of which the first four hold no ':', so two
\* joined fingerprints are equal exactly when the five parts are; the model
\* keeps the parts, with the strings joined by '|' as the code joins them
fingerprint(f) ==
    <<f.paramCount,
      IF f.isAsync THEN "A" ELSE "",
      IF f.isGenerator THEN "G" ELSE "",
      sizeBin(f.end - f.start),
      Join(f.strings, <<"|">>)>>

SeqToSet(q) == {q[k] : k \in 1..Len(q)}

\* ClosestCandidate with the distance taken without Math.abs: a candidate that
\* lies before fn1 is never closer than Infinity's stand-in and is passed over
RECURSIVE ClosestCandidate_ForwardOnly(_, _, _, _, _, _)
ClosestCandidate_ForwardOnly(f1, m2, matched2, k, best, bestDist) ==
    IF k > Len(m2) THEN best
    ELSE IF fingerprint(m2[k]) # fingerprint(f1) \/ k \in matched2
            \/ m2[k].start < f1.start
    THEN ClosestCandidate_ForwardOnly(f1, m2, matched2, k + 1, best, bestDist)
    ELSE LET dist == m2[k].start - f1.start
         IN  IF best = 0 \/ dist < bestDist
             THEN ClosestCandidate_ForwardOnly(f1, m2, matched2, k + 1, k, dist)
             ELSE ClosestCandidate_ForwardOnly(f1, m2, matched2, k + 1, best, bestDist)

\* Pass 1, one iteration of the inner loop over the candidates (the entries of
\* map2 with fn1's fingerprint, in map order); best = 0 stands for null
RECURSIVE ClosestCandidate(_, _, _, _, _, _)
ClosestCandidate(f1, m2, matched2, k, best, bestDist) ==
    IF k > Len(m2) THEN best
    ELSE IF fingerprint(m2[k]) # fingerprint(f1) \/ k \in matched2
    THEN ClosestCandidate(f1, m2, matched2, k + 1, best, bestDist)
    ELSE LET dist == Abs(m2[k].start - f1.start)
         IN  IF best = 0 \/ dist < bestDist
             THEN ClosestCandidate(f1, m2, matched2, k + 1, k, dist)
             ELSE ClosestCandidate(f1, m2, matched2, k + 1, best, bestDist)

DiffInit == [unchanged |-> <<>>, modified |-> <<>>, added |-> <<>>, removed |-> <<>>,
             matched1 |-> {}, matched2 |-> {}]

\* DiffPass1 without matched2.add(best._idx)
RECURSIVE DiffPass1_NoClaim(_, _, _, _)
DiffPass1_NoClaim(m1, m2, k, d) ==
    IF k > Len(m1) THEN d
    ELSE LET f1 == m1[k]
             best == ClosestCandidate(f1, m2, d.matched2, 1, 0, 0)
         IN  IF best = 0 THEN DiffPass1_NoClaim(m1, m2, k + 1, d)
             ELSE DiffPass1_NoClaim(m1, m2, k + 1,
                    [d EXCEPT !.matched1 = d.matched1 \cup {k},
                              !.unchanged = Append(d.unchanged,
                                  [name |-> f1.name, v1Start |-> f1.start, v1End |-> f1.end,
                                   v2Start |-> m2[best].start, v2End |-> m2[best].end,
                                   shift |-> m2[best].start - f1.start,
                                   i1 |-> k, i2 |-> best])])

\* Pass 1: exact fingerprint match.  i1 and i2 are history fields: the positions
\* of the paired entries in map1 and map2.
RECURSIVE DiffPass1(_, _, _, _)
DiffPass1(m1, m2, k, d) ==
    IF k > Len(m1) THEN d
    ELSE LET f1 == m1[k]
             best == ClosestCandidate(f1, m2, d.matched2, 1, 0, 0)
         IN  IF best = 0 THEN DiffPass1(m1, m2, k + 1, d)
             ELSE DiffPass1(m1, m2, k + 1,
                    [d EXCEPT !.matched2 = d.matched2 \cup {best},
                              !.matched1 = d.matched1 \cup {k},
                              !.unchanged = Append(d.unchanged,
                                  [name |-> f1.name, v1Start |-> f1.start, v1End |-> f1.end,
                                   v2Start |-> m2[best].start, v2End |-> m2[best].end,
                                   shift |-> m2[best].start - f1.start,
                                   i1 |-> k, i2 |-> best])])

\* the Jaccard score of two string lists as the fraction <<numerator, denominator>>
Jaccard(s1, s2) ==
    <<Len(SelectSeq(s1, LAMBDA x : x \in SeqToSet(s2))),
      Cardinality(SeqToSet(s1) \cup SeqToSet(s2))>>

\* a > b for fractions with positive denominators
FracGreater(a, b) == a[1] * b[2] > b[1] * a[2]

\* BestFuzzy taking the first candidate above the threshold, not the best
RECURSIVE BestFuzzy_FirstAbove(_, _, _, _, _, _)
BestFuzzy_FirstAbove(f1, m2, unmatched2, k, bestMatch, bestScore) ==
    IF k > Len(m2) THEN [match |-> bestMatch, score |-> bestScore]
    ELSE IF k \notin unmatched2 \/ m2[k].paramCount # f1.paramCount
            \/ Len(m2[k].strings) = 0
    THEN BestFuzzy_FirstAbove(f1, m2, unmatched2, k + 1, bestMatch, bestScore)
    ELSE LET jaccard == Jaccard(f1.strings, m2[k].strings)
         IN  IF FracGreater(jaccard, <<1, 2>>) /\ bestMatch = 0
             THEN BestFuzzy_FirstAbove(f1, m2, unmatched2, k + 1, k, jaccard)
             ELSE BestFuzzy_FirstAbove(f1, m2, unmatched2, k + 1, bestMatch, bestScore)

\* Pass 2, inner loop over the indices of map2 still unmatched, in ascending order
RECURSIVE BestFuzzy(_, _, _, _, _, _)
BestFuzzy(f1, m2, unmatched2, k, bestMatch, bestScore) ==
    IF k > Len(m2) THEN [match |-> bestMatch, score |-> bestScore]
    ELSE IF k \notin unmatched2 \/ m2[k].paramCount # f1.paramCount
            \/ Len(m2[k].strings) = 0
    THEN BestFuzzy(f1, m2, unmatched2, k + 1, bestMatch, bestScore)
    ELSE LET jaccard == Jaccard(f1.strings, m2[k].strings)
         IN  IF FracGreater(jaccard, <<1, 2>>) /\ FracGreater(jaccard, bestScore)
             THEN BestFuzzy(f1, m2, unmatched2, k + 1, k, jaccard)
             ELSE BestFuzzy(f1, m2, unmatched2, k + 1, bestMatch, bestScore)

\* Pass 2: fuzzy match of the entries pass 1 left unmatched
RECURSIVE DiffPass2(_, _, _, _)
DiffPass2(m1, m2, k, d) ==
    IF k > Len(m1) THEN d
    ELSE IF k \in d.matched1 \/ Len(m1[k].strings) = 0 THEN DiffPass2(m1, m2, k + 1, d)
    ELSE LET f1 == m1[k]
             b == BestFuzzy(f1, m2, (1..Len(m2)) \ d.matched2, 1, 0, <<0, 1>>)
         IN  IF b.match = 0 THEN DiffPass2(m1, m2, k + 1, d)
             ELSE LET f2 == m2[b.match]
                  IN  DiffPass2(m1, m2, k + 1,
                        [d EXCEPT !.matched2 = d.matched2 \cup {b.match},
                                  !.matched1 = d.matched1 \cup {k},
                                  !.modified = Append(d.modified,
                                     [name |-> f1.name, v1Start |-> f1.start,
                                      v1End |-> f1.end, v1Size |-> f1.end - f1.start,
                                      v2Start |-> f2.start, v2End |-> f2.end,
                                      v2Size |-> f2.end - f2.start,
                                      shift |-> f2.start - f1.start,
                                      sizeDiff |-> (f2.end - f2.start) - (f1.end - f1.start),
                                      addedStrings |-> SelectSeq(f2.strings,
                                          LAMBDA x : x \notin SeqToSet(f1.strings)),
                                      removedStrings |-> SelectSeq(f1.strings,
                                          LAMBDA x : x \notin SeqToSet(f2.strings)),
                                      similarity |-> b.score,
                                      i1 |-> k, i2 |-> b.match])])

\* Leftover without the _matched test: every entry is reported
Leftover_All(m, matched) ==
    [j \in 1..Len(m) |->
       [name |-> m[j].name, start |-> m[j].start, end |-> m[j].end,
        size |-> m[j].end - m[j].start, strings |-> m[j].strings, idx |-> j]]

\* Pass 3: what is left is removed (map1) or added (map2); idx is a history
\* field, the position of the entry in its map
Leftover(m, matched) ==
    LET rest == SelectSeq([k \in 1..Len(m) |-> k], LAMBDA k : k \notin matched)
    IN  [j \in 1..Len(rest) |->
           [name |-> m[rest[j]].name, start |-> m[rest[j]].start, end |-> m[rest[j]].end,
            size |-> m[rest[j]].end - m[rest[j]].start, strings |-> m[rest[j]].strings,
            idx |-> rest[j]]]

diffFunctions(m1, m2) ==
    LET d == DiffPass2(m1, m2, 1, DiffPass1(m1, m2, 1, DiffInit))
    IN  [unchanged |-> d.unchanged, modified |-> d.modified,
         added |-> Leftover(m2, d.matched2), removed |-> Leftover(m1, d.matched1)]

----------------------------------------------------------------------------
(* Inputs                                                                   *)

BoundedSeqs(A, n) == UNION {[1..k -> A] : k \in 0..n}

NoResult == [none |-> TRUE]
NoDiff == [unchanged |-> <<>>, modified |-> <<>>, added |-> <<>>, removed |-> <<>>]

\* the values the variables of a component hold while another component runs
PatchIdle == fn = "none" /\ pattern = <<>> /\ regexOpt = FALSE /\ idx = 0 /\ matches = <<>>
ExtractIdle == offset = 0 /\ spans = {} /\ funcStart = -1 /\ extracted = NoResult
DiffIdle == map1 = <<>> /\ map2 = <<>> /\ diff = NoDiff /\ rdiff = NoDiff
BeautifyIdle == bst = BInit
ToolIdle == scopes = <<>> /\ tree = <<>> /\ cli = <<>>

patchVars == <<fn, pattern, regexOpt, idx, matches>>
extractVars == <<offset, spans, funcStart, extracted>>
toolVars == <<scopes, tree, cli>>
diffVars == <<map1, map2, diff, rdiff>>

----------------------------------------------------------------------------
(* Specification of the pattern analyses: checkPatch, matchPattern,         *)
(* findInFunctions, one match-loop iteration per step                       *)

MaxSrcLen == 3
MaxPatLen == 2
PatchAlphabet == {"a", "b"}
\* the matches[] array cannot grow without bound: when it holds HeapLimit entries
\* the next push exhausts the heap and the process dies.  No scan that finds
\* every start position at most once gets there.
HeapLimit == MaxSrcLen + 3

LiteralPatterns == BoundedSeqs(PatchAlphabet, MaxPatLen)
RegexPatterns == {<<>>, <<"a">>, <<"b", "+">>, <<"a", "*">>, ShorthandV, <<"*">>}

PatchInit ==
    /\ pc = "start"
    /\ result = NoResult
    /\ src \in BoundedSeqs(PatchAlphabet, MaxSrcLen)
    /\ fn \in {"checkPatch", "matchPattern", "findInFunctions"}
    /\ regexOpt \in IF fn = "matchPattern" THEN {TRUE} ELSE BOOLEAN
    /\ pattern \in IF regexOpt THEN RegexPatterns ELSE LiteralPatterns
    /\ idx = 0
    /\ matches = <<>>
    /\ ExtractIdle /\ DiffIdle /\ BeautifyIdle /\ ToolIdle

\* the entry pushed on matches[] for a match of text at offset off
MatchEntry(off, text) ==
    IF fn = "findInFunctions" THEN [offset |-> off, matchText |-> text]
    ELSE LET ctxStart == Max(0, off - 200)
             ctxEnd == Min(Len(src), off + Len(text) + 200)
         IN  [offset |-> off, matchText |-> text,
              context |-> Substring(src, ctxStart, ctxEnd), contextOffset |-> ctxStart]

ReturnValue(ms) ==
    CASE fn = "checkPatch" -> CheckPatchResult(src, pattern, ms)
      [] fn = "matchPattern" -> MatchPatternResult(pattern, ms)
      [] fn = "findInFunctions" -> FindInFunctionsResult(src, ms)

\* entry of the analysis: in regex mode the expanded pattern is compiled, and
\* new RegExp throws a SyntaxError on an invalid expression
PatchBegin ==
    /\ pc = "start"
    /\ IF regexOpt /\ ~CompileRegExp(expandShorthands(pattern)).ok
       THEN pc' = "threw" /\ result' = [error |-> "SyntaxError"]
       ELSE pc' = "scan" /\ UNCHANGED result
    /\ UNCHANGED <<src, patchVars, extractVars, diffVars, bst, toolVars>>

\* one iteration of  while (true) { found = src.indexOf(pattern, idx); ... }
LiteralIteration ==
    /\ pc = "scan" /\ ~regexOpt /\ Len(matches) < HeapLimit
    /\ LET found == IndexOf(src, pattern, idx)
       IN  IF found < 0
           THEN /\ pc' = "done"
                /\ result' = ReturnValue(matches)
                /\ UNCHANGED <<idx, matches>>
           ELSE /\ matches' = Append(matches, MatchEntry(found, pattern))
                /\ idx' = found + 1
                /\ UNCHANGED <<pc, result>>
    /\ UNCHANGED <<src, fn, pattern, regexOpt, extractVars, diffVars, bst, toolVars>>

\* one iteration of  while ((m = re.exec(src)) !== null) { ... }
RegexIteration ==
    /\ pc = "scan" /\ regexOpt /\ Len(matches) < HeapLimit
    /\ LET re == CompileRegExp(expandShorthands(pattern))
           m == RegExpExec(re, src, idx)
       IN  IF ~m.found
           THEN /\ pc' = "done"
                /\ result' = ReturnValue(matches)
                /\ idx' = m.lastIndex
                /\ UNCHANGED matches
           ELSE /\ matches' = Append(matches,
                                MatchEntry(m.index, Substring(src, m.index, m.index + m.length)))
                /\ idx' = m.lastIndex
                /\ UNCHANGED <<pc, result>>
    /\ UNCHANGED <<src, fn, pattern, regexOpt, extractVars, diffVars, bst, toolVars>>

\* matches.push on a full heap: the process dies without returning anything
HeapExhausted ==
    /\ pc = "scan" /\ Len(matches) >= HeapLimit
    /\ pc' = "exhausted"
    /\ UNCHANGED <<result, src, patchVars, extractVars, diffVars, bst, toolVars>>

PatchNext == PatchBegin \/ LiteralIteration \/ RegexIteration \/ HeapExhausted

PatchSpec == PatchInit /\ [][PatchNext]_vars

----------------------------------------------------------------------------
(* Properties of the pattern analyses                                       *)

\* the start positions at which p occurs in s
Occurrences(s, p) == {k \in 0..Len(s) : OccursAt(s, p, k)}

PatchLawHolds ==
    LET n == Cardinality(Occurrences(src, pattern))
    IN  /\ result.matchCount = n
        /\ result.status = "UNIQUE" <=> n = 1
        /\ result.status = "NOT_FOUND" <=> n = 0
        /\ result.status = "AMBIGUOUS" <=> n > 1

\* C1: in literal mode, for every buffer and every pattern, checkPatch returns,
\* and the status it returns is UNIQUE / NOT_FOUND / AMBIGUOUS exactly when the
\* pattern occurs at one / no / several start positions, with matchCount the
\* number of occurrences.
C1_PatchUniquenessLaw ==
    (fn = "checkPatch" /\ ~regexOpt) =>
        /\ pc # "exhausted"
        /\ pc = "done" => PatchLawHolds

\* The law of C1 for the patterns on which the scan ends: every non-empty one.
PatchLawNonEmptyPattern ==
    (fn = "checkPatch" /\ ~regexOpt /\ pattern # <<>>) =>
        /\ pc # "exhausted"
        /\ pc = "done" => PatchLawHolds

\* overlapping occurrences are counted: "aa" in "aaa" is AMBIGUOUS with 2 matches
PatchLawOverlapReached ==
    /\ fn = "checkPatch" /\ ~regexOpt /\ pc = "done"
    /\ pattern = <<"a", "a">> /\ src = <<"a", "a", "a">>
    /\ result.status = "AMBIGUOUS" /\ result.matchCount = 2

\* C7: checkPatch, matchPattern and findInFunctions are total: whatever the
\* buffer and the pattern (the empty literal pattern and expressions matching
\* the empty string included) the run ends with a result or a structured error,
\* so the match loop never runs until the heap is exhausted.
C7_PatternAnalysesTotal == pc # "exhausted"

----------------------------------------------------------------------------
(* Specification of the function boundary scanner.  The buffers are          *)
(* syntactically valid programs generated from function forms, so that the   *)
(* functions a buffer really contains are known: spans holds, for each, the  *)
(* pair <<signature start, offset after the closing brace>>.                 *)

MaxDepth == 2

\* a function form: the text before its body (the signature starts at sigOff
\* in it) and the text after the closing brace of the body
FormRegular ==
    [head |-> <<"f", "u", "n", "c", "t", "i", "o", "n", " ", "f", "(", "a", ")">>,
     sigOff |-> 0, tail |-> <<>>]
FormAsync ==
    [head |-> <<"a", "s", "y", "n", "c", " ", "f", "u", "n", "c", "t", "i", "o", "n", " ", "f", "(", ")">>,
     sigOff |-> 0, tail |-> <<>>]
FormGenerator ==
    [head |-> <<"f", "u", "n", "c", "t", "i", "o", "n", "*", "g", "(", ")">>,
     sigOff |-> 0, tail |-> <<>>]
FormArrow ==
    [head |-> <<"(", "a", ")", "=", ">">>,
     sigOff |-> 0, tail |-> <<>>]
FormArrowBare ==
    [head |-> <<"x", "=", ">">>,
     sigOff |-> 0, tail |-> <<>>]
FormDestructured ==
    [head |-> <<"f", "u", "n", "c", "t", "i", "o", "n", " ", "f", "(", "{", "a", "}", ")">>,
     sigOff |-> 0, tail |-> <<>>]
FormMethod ==
    [head |-> <<"(", "{", "m", "(", ")">>,
     sigOff |-> 2, tail |-> <<"}", ")">>]
FormAsyncMethod ==
    [head |-> <<"(", "{", "a", "s", "y", "n", "c", " ", "m", "(", ")">>,
     sigOff |-> 2, tail |-> <<"}", ")">>]

Forms == {FormRegular, FormAsync, FormGenerator, FormArrow, FormArrowBare,
          FormDestructured, FormMethod, FormAsyncMethod}

\* bodies without a function: a statement, a block statement, a string holding a brace
Leaves == {[text |-> <<"x">>, spans |-> {}],
           [text |-> <<"i", "f", "(", "c", ")", "{", "d", "}">>, spans |-> {}],
           [text |-> <<"s", "=", "\"", "}", "\"">>, spans |-> {}]}

\* the program  head { body } tail  and the functions it contains
Wrap(form, body) ==
    LET open == Len(form.head)
    IN  [text |-> form.head \o <<"{">> \o body.text \o <<"}">> \o form.tail,
         spans |-> {<<sp[1] + open + 1, sp[2] + open + 1>> : sp \in body.spans}
                   \cup {<<form.sigOff, open + Len(body.text) + 2>>}]

RECURSIVE ProgramsOfDepth(_)
ProgramsOfDepth(d) ==
    IF d = 0 THEN Leaves
    ELSE {Wrap(f, b) : f \in Forms, b \in ProgramsOfDepth(d - 1)}

Programs == UNION {ProgramsOfDepth(d) : d \in 1..MaxDepth}

ExtractInit ==
    /\ pc = "ready"
    /\ result = NoResult
    /\ \E prog \in Programs :
          /\ src = prog.text
          /\ spans = prog.spans
          /\ offset \in 0..(Len(prog.text) - 1)
    /\ funcStart = -1
    /\ extracted = NoResult
    /\ PatchIdle /\ DiffIdle /\ BeautifyIdle /\ ToolIdle

CallFindFunctionStart ==
    /\ pc = "ready"
    /\ funcStart' = findFunctionStart(src, offset)
    /\ pc' = "found"
    /\ UNCHANGED <<result, src, patchVars, offset, spans, extracted, diffVars, bst, toolVars>>

CallExtractFunction ==
    /\ pc = "ready"
    /\ extracted' = extractFunction(src, offset)
    /\ pc' = "extracted"
    /\ UNCHANGED <<result, src, patchVars, offset, spans, funcStart, diffVars, bst, toolVars>>

ExtractNext == CallFindFunctionStart \/ CallExtractFunction

ExtractSpec == ExtractInit /\ [][ExtractNext]_vars

\* the functions of the program whose range [signature start, closing brace]
\* contains the query offset
Containing == {sp \in spans : sp[1] <= offset /\ offset < sp[2]}
Innermost == CHOOSE sp \in Containing : \A o \in Containing : sp[2] - sp[1] <= o[2] - o[1]

\* C2: for an offset inside a function form (signature or body), whatever its
\* kind and parameter list, extractFunction returns no error and a span
\* [start, end) that holds the offset and is exactly one function form of the
\* buffer.
C2_ExtractRoundtrip ==
    (pc = "extracted" /\ Containing # {}) =>
        /\ extracted.error = ""
        /\ extracted.start <= offset /\ offset < extracted.end
        /\ <<extracted.start, extracted.end>> \in spans

\* C3: findFunctionStart returns the signature start of the smallest function
\* containing the offset, and -1 only when no function contains it.
C3_InnermostEnclosing ==
    (pc = "found" /\ Containing # {}) => funcStart = Innermost[1]

----------------------------------------------------------------------------
(* Specification of the cross-version diff.  A function map is what          *)
(* buildFunctionMap returns: entries sorted by start, strings sorted unique. *)

MaxFns == 2

MapStarts == {0, 8}
\* size, parameter count and string set of the generated entries
Shapes == {[size |-> 20, paramCount |-> 1, strings |-> <<<<"x">>, <<"y">>>>],
           [size |-> 40, paramCount |-> 1, strings |-> <<<<"x">>, <<"y">>, <<"z">>>>],
           [size |-> 20, paramCount |-> 1, strings |-> <<>>],
           [size |-> 20, paramCount |-> 0, strings |-> <<<<"x">>, <<"y">>>>]}

Entries == {[name |-> "<anonymous>", start |-> st, end |-> st + sh.size,
             paramCount |-> sh.paramCount, isAsync |-> FALSE, isGenerator |-> FALSE,
             strings |-> sh.strings] : st \in MapStarts, sh \in Shapes}

FunctionMaps ==
    {m \in BoundedSeqs(Entries, MaxFns) :
        \A k \in 1..(Len(m) - 1) : m[k].start <= m[k + 1].start}

DiffSpecInit ==
    /\ pc = "ready"
    /\ result = NoResult
    /\ src = <<>>
    /\ map1 \in FunctionMaps
    /\ map2 \in FunctionMaps
    /\ diff = NoDiff
    /\ rdiff = NoDiff
    /\ PatchIdle /\ ExtractIdle /\ BeautifyIdle /\ ToolIdle

\* diffFunctions(map1, map2)
CallDiff ==
    /\ pc = "ready"
    /\ diff' = diffFunctions(map1, map2)
    /\ pc' = "forward"
    /\ UNCHANGED <<result, src, patchVars, extractVars, map1, map2, rdiff, bst, toolVars>>

\* the same maps passed in the other order: diffFunctions(map2, map1)
CallDiffSwapped ==
    /\ pc = "forward"
    /\ rdiff' = diffFunctions(map2, map1)
    /\ pc' = "both"
    /\ UNCHANGED <<result, src, patchVars, extractVars, map1, map2, diff, bst, toolVars>>

DiffNext == CallDiff \/ CallDiffSwapped

DiffSpec == DiffSpecInit /\ [][DiffNext]_vars

DiffDone == pc \in {"forward", "both"}

\* how many records of list q have value k in their field f
CountField(q, f, k) == Cardinality({j \in 1..Len(q) : q[j][f] = k})

\* C4: diffFunctions partitions its inputs: every entry of map1 is in exactly
\* one of unchanged, modified, removed, every entry of map2 in exactly one of
\* unchanged, modified, added, and no entry of map2 is paired twice.
C4_DiffPartition ==
    DiffDone =>
        /\ \A k \in 1..Len(map1) :
              CountField(diff.unchanged, "i1", k) + CountField(diff.modified, "i1", k)
                + CountField(diff.removed, "idx", k) = 1
        /\ \A k \in 1..Len(map2) :
              CountField(diff.unchanged, "i2", k) + CountField(diff.modified, "i2", k)
                + CountField(diff.added, "idx", k) = 1
        /\ Len(diff.unchanged) + Len(diff.modified) + Len(diff.removed) = Len(map1)
        /\ Len(diff.unchanged) + Len(diff.modified) + Len(diff.added) = Len(map2)

\* two entries of map1 compete for the single entry of map2 with their fingerprint
C4_ContendedReached ==
    /\ DiffDone /\ Len(map1) = 2 /\ Len(map2) = 1
    /\ fingerprint(map1[1]) = fingerprint(map2[1])
    /\ fingerprint(map1[2]) = fingerprint(map2[1])
    /\ Len(diff.unchanged) = 1 /\ Len(diff.removed) = 1

\* C5: diffFunctions(m, m) reports every entry of m as unchanged with shift 0
\* and nothing as modified, added or removed.
C5_DiffOfSelf ==
    (DiffDone /\ map1 = map2) =>
        /\ Len(diff.unchanged) = Len(map1)
        /\ \A k \in 1..Len(map1) :
              \E j \in 1..Len(diff.unchanged) :
                 /\ diff.unchanged[j].i1 = k
                 /\ diff.unchanged[j].v1Start = map1[k].start
                 /\ diff.unchanged[j].v1End = map1[k].end
                 /\ diff.unchanged[j].shift = 0
        /\ diff.modified = <<>> /\ diff.added = <<>> /\ diff.removed = <<>>

\* a map compared with itself in which two entries at different offsets share
\* a fingerprint
C5_SelfWithTwinsReached ==
    /\ DiffDone /\ map1 = map2 /\ Len(map1) = 2
    /\ fingerprint(map1[1]) = fingerprint(map1[2])
    /\ map1[1].start # map1[2].start
    /\ Len(diff.unchanged) = 2

\* the unchanged pairs as pairs of (v1 entry, v2 entry), and the same with the
\* two sides exchanged
UnchangedPairs(d) == {<<d.unchanged[j].i1, d.unchanged[j].i2>> : j \in 1..Len(d.unchanged)}
SwappedPairs(d) == {<<d.unchanged[j].i2, d.unchanged[j].i1>> : j \in 1..Len(d.unchanged)}

\* C6 (as claimed): for all maps, the unchanged pairs of diffFunctions(m1, m2)
\* are those of diffFunctions(m2, m1) with v1 and v2 exchanged.
C6_UnchangedSymmetric ==
    pc = "both" => UnchangedPairs(diff) = SwappedPairs(rdiff)

FingerprintsDistinct(m) ==
    \A j, k \in 1..Len(m) : j # k => fingerprint(m[j]) # fingerprint(m[k])

\* C6 (amended): the unchanged pairing is symmetric for maps in which no two
\* entries of the same map share a fingerprint.
C6_UnchangedSymmetricDistinct ==
    (pc = "both" /\ FingerprintsDistinct(map1) /\ FingerprintsDistinct(map2)) =>
        UnchangedPairs(diff) = SwappedPairs(rdiff)

\* maps with distinct fingerprints and an unchanged function that moved
C6_DistinctShiftedReached ==
    /\ pc = "both" /\ FingerprintsDistinct(map1) /\ FingerprintsDistinct(map2)
    /\ Len(map1) = 2 /\ Len(map2) = 2
    /\ \E j \in 1..Len(diff.unchanged) : diff.unchanged[j].shift > 0

----------------------------------------------------------------------------
(* Specification of the beautifier, one loop iteration per step              *)

MaxBeautifyLen == 4
BeautifyAlphabet == {"a", " ", "\n", "{", "}", ";", "\"", "/"}

BeautifyInit ==
    /\ pc = "scan"
    /\ result = NoResult
    /\ src \in BoundedSeqs(BeautifyAlphabet, MaxBeautifyLen)
    /\ bst = BInit
    /\ PatchIdle /\ ExtractIdle /\ DiffIdle /\ ToolIdle

\* the body of the for loop, for i = bst.i
BeautifyChar ==
    /\ pc = "scan"
    /\ bst.i < Len(src)
    /\ bst' = BStep(src, bst)
    /\ UNCHANGED <<pc, result, src, patchVars, extractVars, diffVars, toolVars>>

\* the loop is over: the last flush and the return
BeautifyReturn ==
    /\ pc = "scan"
    /\ bst.i >= Len(src)
    /\ bst' = BFinish(src, bst)
    /\ result' = [text |-> Join(bst'.out, <<"\n">>), offsetMap |-> bst'.offsetMap]
    /\ pc' = "done"
    /\ UNCHANGED <<src, patchVars, extractVars, diffVars, toolVars>>

BeautifyNext == BeautifyChar \/ BeautifyReturn

BeautifySpec == BeautifyInit /\ [][BeautifyNext]_vars

StripWhiteSpace(s) == SelectSeq(s, LAMBDA c : c \notin WhiteSpace)

\* the lines of a text: text.split('\n'), and no line for the empty text
RECURSIVE SplitLines(_, _)
SplitLines(text, cur) ==
    IF Len(text) = 0 THEN <<cur>>
    ELSE IF Head(text) = "\n" THEN <<cur>> \o SplitLines(Tail(text), <<>>)
    ELSE SplitLines(Tail(text), Append(cur, Head(text)))

OutputLines == IF result.text = <<>> THEN <<>> ELSE SplitLines(result.text, <<>>)

\* C8: beautify neither drops, adds nor reorders non-whitespace characters:
\* the returned text with all whitespace deleted is the input with all
\* whitespace deleted, for every input, unbalanced braces included.
C8_NonWhiteSpacePreserved ==
    pc = "done" => StripWhiteSpace(result.text) = StripWhiteSpace(src)

\* an input that closes a brace it never opened, holds whitespace, and is
\* broken into several lines
C8_UnbalancedReached ==
    /\ pc = "done"
    /\ \E k \in 1..Len(src) : src[k] = "}" /\ \A j \in 1..(k - 1) : src[j] # "{"
    /\ \E k \in 1..Len(src) : src[k] \in WhiteSpace
    /\ Len(OutputLines) >= 2
    /\ result.text # src

\* offset of the first non-whitespace character of s at or after offset k
FirstNonWhiteSpace(s, k) == k + RunLength(s, k, WhiteSpace)

\* C9: for every output line i, offsetMap[i] is the offset at which the line's
\* content begins in the input: the first non-whitespace character at or after
\* that offset is the first character of line i, closing-brace lines included.
C9_OffsetMapExact ==
    pc = "done" =>
        \A k \in 1..Len(result.offsetMap) :
            FirstNonWhiteSpace(src, result.offsetMap[k]) = bst.firstCopied[k]

\* C10: offsetMap has one entry per output line, and the offset recorded for a
\* line is at most the input offset of the first character copied into it.
C10_OffsetMapBound ==
    pc = "done" =>
        /\ Len(result.offsetMap) = Len(OutputLines)
        /\ Len(bst.firstCopied) = Len(OutputLines)
        /\ \A k \in 1..Len(result.offsetMap) :
              /\ result.offsetMap[k] <= bst.firstCopied[k]
              /\ src[bst.firstCopied[k] + 1] = Head(TrimStart(OutputLines[k]))

\* several lines, one of them recorded strictly before its first copied
\* character and one exactly at it
C10_StrictAndExactReached ==
    /\ pc = "done"
    /\ Len(OutputLines) >= 2
    /\ \E k \in 1..Len(result.offsetMap) : result.offsetMap[k] < bst.firstCopied[k]
    /\ \E k \in 1..Len(result.offsetMap) : result.offsetMap[k] = bst.firstCopied[k]

----------------------------------------------------------------------------
(* Specification of the beautifier on syntactically valid programs.  A       *)
(* program is a sequence of complete statements, comments and white space,   *)
(* so the literals and comments it really contains are known: spans holds,   *)
(* for each, <<start, end, mode, closer>>: the literal or comment is          *)
(* src[start..end), its characters are in mode, and its last closer          *)
(* characters are its terminator.                                            *)

MaxStmts == 2

StmtExpr == [text |-> <<"a", ";">>, lits |-> {}]
StmtBlock == [text |-> <<"{", "a", ";", "}">>, lits |-> {}]
StmtDivision == [text |-> <<"x", "=", "a", "/", "b", ";">>, lits |-> {}]
\* (a++)/b: a division after a postfix operator
StmtPostfixDivision == [text |-> <<"x", "=", "a", "+", "+", "/", "b", ";">>, lits |-> {}]
StmtRegex == [text |-> <<"x", "=", "/", ";", "/", ";">>, lits |-> {<<2, 5, S_REGEX, 1>>}]
\* a regex whose character class holds a slash: /[/]/
StmtRegexClass ==
    [text |-> <<"x", "=", "/", "[", "/", "]", "/", ";">>, lits |-> {<<2, 7, S_REGEX, 1>>}]
StmtString ==
    [text |-> <<"s", "=", "\"", "}", ";", "\"", ";">>, lits |-> {<<2, 6, S_STRING_DOUBLE, 1>>}]
\* a template literal that holds a line break followed by a blank
StmtTemplate ==
    [text |-> <<"s", "=", Backtick, "{", "\n", " ", ";", Backtick, ";">>,
     lits |-> {<<2, 8, S_TEMPLATE, 1>>}]
StmtBlockComment ==
    [text |-> <<"/", "*", ";", "}", "*", "/">>, lits |-> {<<0, 6, S_COMMENT_BLOCK, 2>>}]
StmtLineComment ==
    [text |-> <<"/", "/", "}", ";", "\n">>, lits |-> {<<0, 4, S_COMMENT_LINE, 0>>}]
StmtNewline == [text |-> <<"\n">>, lits |-> {}]
StmtBlank == [text |-> <<" ">>, lits |-> {}]

Stmts == {StmtExpr, StmtBlock, StmtDivision, StmtPostfixDivision, StmtRegex,
          StmtRegexClass, StmtString, StmtTemplate, StmtBlockComment, StmtLineComment,
          StmtNewline, StmtBlank}

\* the program made of the statements of q, in order
RECURSIVE StmtSeq(_)
StmtSeq(q) ==
    IF Len(q) = 0 THEN [text |-> <<>>, lits |-> {}]
    ELSE LET rest == StmtSeq(Tail(q))
             n == Len(Head(q).text)
         IN  [text |-> Head(q).text \o rest.text,
              lits |-> Head(q).lits
                       \cup {<<l[1] + n, l[2] + n, l[3], l[4]>> : l \in rest.lits}]

ValidPrograms == {StmtSeq(q) : q \in BoundedSeqs(Stmts, MaxStmts)}

LiteralInit ==
    /\ pc = "scan"
    /\ result = NoResult
    /\ \E prog \in ValidPrograms : src = prog.text /\ spans = prog.lits
    /\ offset = 0 /\ funcStart = -1 /\ extracted = NoResult
    /\ bst = BInit
    /\ PatchIdle /\ DiffIdle /\ ToolIdle

LiteralSpec == LiteralInit /\ [][BeautifyNext]_vars

\* C11: beautify copies every string, template literal, regex literal and
\* comment verbatim: each one appears in the returned text as one contiguous,
\* unmodified piece, so no line break, indentation or trimming is introduced
\* inside it and its inner braces and semicolons split no line.
C11_LiteralsVerbatim ==
    pc = "done" =>
        \A l \in spans :
            \E k \in 0..Len(result.text) :
                OccursAt(result.text, Substring(src, l[1], l[2]), k)

\* the mode of the machine after the character at 0-based offset c has been
\* fed to it must be: the literal's mode inside a literal or comment (its
\* terminator left open), Normal everywhere else
ClassifiedCorrectly(c, state) ==
    IF \E l \in spans : l[1] <= c /\ c < l[2] - l[4]
    THEN \A l \in spans : (l[1] <= c /\ c < l[2] - l[4]) => state = l[3]
    ELSE IF \E l \in spans : l[2] - l[4] <= c /\ c < l[2]
    THEN TRUE
    ELSE state = S_NORMAL

\* C15: driving the state machine from the start over a syntactically valid
\* program classifies every character correctly: each character of a string,
\* template literal, regex literal or comment is in that literal's mode, and
\* every other character (a division operator, a character after a
\* terminator) is in Normal.
C15_ClassifiesValidPrograms ==
    bst.i >= 1 => ClassifiedCorrectly(bst.i - 1, bst.sm.state)

-----------------------------------------------------------------------------
(* Scope lookup (scope.mjs): findScopeAt over the scopes[] array            *)

\* the loop body of findScopeAt without the containment test
ScopeStep_NoContainment(target, scope, o) ==
    IF scope.end - scope.start < target.end - target.start THEN scope ELSE target

\* one iteration of `for (const scope of scopes)` in findScopeAt
ScopeStep(target, scope, o) ==
    IF o >= scope.start /\ o <= scope.end
       /\ scope.end - scope.start < target.end - target.start
    THEN scope ELSE target

RECURSIVE FindScopeLoop(_, _, _, _)
FindScopeLoop(ss, o, k, target) ==
    IF k > Len(ss) THEN target
    ELSE FindScopeLoop(ss, o, k + 1, ScopeStep(target, ss[k], o))

\* findScopeAt(offset): target starts as scopes[0]
findScopeAt(ss, o) == FindScopeLoop(ss, o, 1, ss[1])

MaxScopeEnd == 4
MaxNested == 2

\* scopeStack[0]: the module scope spans the whole buffer
ModuleScope(n) == [type |-> "module", start |-> 0, end |-> n]

NestedScopes(n) ==
    {sc \in [type : {"function"}, start : 0..n, end : 0..n] : sc.start < sc.end}

\* scopes are spans of AST nodes: two of them nest or do not overlap, and
\* pushScope appends in walk order, a parent before its children
Laminar(a, b) ==
    \/ a.start <= b.start /\ b.end <= a.end
    \/ b.start <= a.start /\ a.end <= b.end
    \/ a.end <= b.start
    \/ b.end <= a.start

WalkOrder(q) ==
    \A i \in 1..Len(q) : \A j \in 1..Len(q) :
        i < j => /\ Laminar(q[i], q[j])
                 /\ \/ q[i].start < q[j].start
                    \/ q[i].start = q[j].start /\ q[i].end > q[j].end

ScopeLists(n) ==
    {<<ModuleScope(n)>> \o q : q \in {r \in BoundedSeqs(NestedScopes(n), MaxNested) : WalkOrder(r)}}

ScopeInit ==
    /\ pc = "ready" /\ result = NoResult /\ src = <<>>
    /\ \E n \in 0..MaxScopeEnd :
          /\ scopes \in ScopeLists(n)
          /\ offset \in 0..n
    /\ spans = {} /\ funcStart = -1 /\ extracted = NoResult
    /\ tree = <<>> /\ cli = <<>>
    /\ PatchIdle /\ DiffIdle /\ BeautifyIdle

CallFindScopeAt ==
    /\ pc = "ready"
    /\ result' = findScopeAt(scopes, offset)
    /\ pc' = "done"
    /\ UNCHANGED <<src, patchVars, extractVars, diffVars, bst, toolVars>>

ScopeNext == CallFindScopeAt

ScopeSpec == ScopeInit /\ [][ScopeNext]_vars

ScopeContains(scope, o) == scope.start <= o /\ o <= scope.end

ScopeSize(scope) == scope.end - scope.start

\* C12: for every offset o with 0 <= o <= buffer length, findScopeAt(o)
\* returns one of the scopes, its [start,end] contains o, no scope that
\* contains o has a strictly smaller range, and when no scope besides the
\* module scope contains o the module scope is returned.
C12_FindScopeAtMinimal ==
    pc = "done" =>
        /\ \E k \in 1..Len(scopes) : result = scopes[k]
        /\ ScopeContains(result, offset)
        /\ \A k \in 1..Len(scopes) :
              ScopeContains(scopes[k], offset) => ScopeSize(scopes[k]) >= ScopeSize(result)
        /\ (\A k \in 2..Len(scopes) : ~ScopeContains(scopes[k], offset)) => result = scopes[1]

\* the offset lies in two nested scopes and beside a smaller scope that does
\* not contain it; the inner of the two nested scopes is returned
C12_InnermostChosen ==
    /\ pc = "done"
    /\ Len(scopes) = 3
    /\ \E i, j \in 2..3 :
          /\ ScopeContains(scopes[i], offset) /\ ~ScopeContains(scopes[j], offset)
          /\ ScopeSize(scopes[j]) < ScopeSize(scopes[i])
          /\ result = scopes[i]

\* the offset lies in no scope besides the module scope, which is returned
C12_ModuleFallbackReached ==
    /\ pc = "done" /\ Len(scopes) > 1 /\ result = scopes[1]
    /\ \A k \in 2..Len(scopes) : ~ScopeContains(scopes[k], offset)

-----------------------------------------------------------------------------
(* AST (parse.mjs): nodes as the parser returns them, with 0-based spans    *)

\* a node: its type, its span, its value (identifiers), its kind (variable
\* declarations), its async and generator flags (functions) and its
\* object-valued properties in key order; a property
\* holds a list of nodes (one node for a property that is not an array)
Node(t, a, b, v, kids) ==
    [type |-> t, start |-> a, end |-> b, value |-> v, kind |-> "",
     async |-> FALSE, generator |-> FALSE, kids |-> kids]

Kid(key, nodes) == [key |-> key, val |-> nodes]

\* node[key], the empty list standing for an absent or null property
Field(node, key) ==
    LET hits == {i \in 1..Len(node.kids) : node.kids[i].key = key}
    IN  IF hits = {} THEN <<>> ELSE node.kids[CHOOSE i \in hits : TRUE].val

RECURSIVE FlattenKids(_)
FlattenKids(kids) ==
    IF Len(kids) = 0 THEN <<>>
    ELSE SelectSeq(Head(kids).val, LAMBDA n : n.type # "") \o FlattenKids(Tail(kids))

\* the children walkAST and walkChildren visit: every property value or
\* array item that is an object with a type, in key order
ChildNodes(node) == FlattenKids(node.kids)

isFunctionNode(node) ==
    node.type \in {"FunctionDeclaration", "FunctionExpression", "ArrowFunctionExpression",
                   "ClassMethod", "Method", "MethodProperty"}

RECURSIVE collectPatternBindings(_, _, _)
RECURSIVE CollectEach(_, _, _)
CollectEach(pats, kind, off) ==
    IF Len(pats) = 0 THEN <<>>
    ELSE collectPatternBindings(Head(pats), kind, off) \o CollectEach(Tail(pats), kind, off)

\* one property of an ObjectPattern
CollectProperty(prop, kind, off) ==
    IF prop.type = "RestElement" THEN CollectEach(Field(prop, "argument"), kind, off)
    ELSE IF prop.type = "KeyValuePatternProperty" THEN CollectEach(Field(prop, "value"), kind, off)
    ELSE IF prop.type = "AssignmentPatternProperty"
         THEN IF Field(prop, "key") # <<>>
              THEN <<[name |-> Field(prop, "key")[1].value, kind |-> "destructured", offset |-> off]>>
              ELSE <<>>
    ELSE IF Field(prop, "value") # <<>> THEN CollectEach(Field(prop, "value"), kind, off)
    ELSE IF Field(prop, "key") # <<>> /\ Field(prop, "key")[1].value # ""
         THEN <<[name |-> Field(prop, "key")[1].value, kind |-> "destructured", offset |-> off]>>
    ELSE <<>>

RECURSIVE CollectProperties(_, _, _)
CollectProperties(props, kind, off) ==
    IF Len(props) = 0 THEN <<>>
    ELSE CollectProperty(Head(props), kind, off) \o CollectProperties(Tail(props), kind, off)

collectPatternBindings(pat, kind, off) ==
    CASE pat.type = "Identifier" -> <<[name |-> pat.value, kind |-> kind, offset |-> off]>>
      [] pat.type = "ObjectPattern" -> CollectProperties(Field(pat, "properties"), kind, off)
      [] pat.type = "ArrayPattern" -> CollectEach(Field(pat, "elements"), kind, off)
      [] pat.type = "AssignmentPattern" -> CollectEach(Field(pat, "left"), kind, off)
      [] pat.type = "RestElement" -> CollectEach(Field(pat, "argument"), kind, off)
      [] OTHER -> <<>>

-----------------------------------------------------------------------------
(* Scope tree (scope.mjs): buildScopeTree                                   *)

\* the builder's state: scopes[] and scopeStack (as indexes into scopes[]);
\* parent is an index into scopes[], 0 for null
currentScope(st) == st.stack[Len(st.stack)]

pushScope(st, type, node) ==
    [scopes |-> Append(st.scopes, [type |-> type, start |-> node.start, end |-> node.end,
                                   vars |-> <<>>, parent |-> currentScope(st)]),
     stack |-> Append(st.stack, Len(st.scopes) + 1)]

popScope(st) == [st EXCEPT !.stack = SubSeq(st.stack, 1, Len(st.stack) - 1)]

\* scope.vars.push(...) for each binding
addVars(st, k, bindings) == [st EXCEPT !.scopes[k].vars = @ \o bindings]

\* `param.pat || param` for each parameter
RECURSIVE ParamBindings(_, _)
ParamBindings(params, off) ==
    IF Len(params) = 0 THEN <<>>
    ELSE LET param == Head(params)
             pat == IF Field(param, "pat") # <<>> THEN Field(param, "pat")[1] ELSE param
         IN  collectPatternBindings(pat, "param", off) \o ParamBindings(Tail(params), off)

RECURSIVE walkNode(_, _)
RECURSIVE WalkList(_, _)
RECURSIVE WalkDeclarations(_, _, _)

WalkList(nodes, st) ==
    IF Len(nodes) = 0 THEN st
    ELSE WalkList(Tail(nodes), walkNode(Head(nodes), st))

walkChildren(node, st) == WalkList(ChildNodes(node), st)

\* the function-like cases after pushScope: parameters into the new scope,
\* then the body, then popScope
WalkFunctionLike(node, st, params, body) ==
    popScope(WalkList(body, addVars(st, currentScope(st), ParamBindings(params, node.start))))

WithIdentifier(node, st, kind) ==
    IF Field(node, "identifier") # <<>> /\ Field(node, "identifier")[1].value # ""
    THEN addVars(st, currentScope(st),
                 <<[name |-> Field(node, "identifier")[1].value, kind |-> kind,
                    offset |-> node.start]>>)
    ELSE st

\* node.function?.x || node.x
FunctionField(node, key) ==
    IF Field(node, "function") # <<>> /\ Field(Field(node, "function")[1], key) # <<>>
    THEN Field(Field(node, "function")[1], key)
    ELSE Field(node, key)

WalkDeclarations(decls, kind, st) ==
    IF Len(decls) = 0 THEN st
    ELSE LET decl == Head(decls)
         IN  WalkDeclarations(Tail(decls), kind,
                 WalkList(Field(decl, "init"),
                          addVars(st, currentScope(st),
                                  CollectEach(Field(decl, "id"), kind, decl.start))))

BlockHasOwnScope(node, parent) ==
    ~(parent.start = node.start \/ parent.type = "function" \/ parent.type = "arrow")

walkNode(node, st) ==
    CASE node.type \in {"FunctionDeclaration", "FunctionExpression"} ->
            WalkFunctionLike(node, pushScope(WithIdentifier(node, st, "function"), "function", node),
                             Field(node, "params"), Field(node, "body"))
      [] node.type = "ArrowFunctionExpression" ->
            WalkFunctionLike(node, pushScope(st, "arrow", node),
                             Field(node, "params"), Field(node, "body"))
      [] node.type \in {"ClassMethod", "Method"} ->
            WalkFunctionLike(node, pushScope(st, "function", node),
                             FunctionField(node, "params"), FunctionField(node, "body"))
      [] node.type = "MethodProperty" ->
            WalkFunctionLike(node, pushScope(st, "function", node),
                             Field(node, "params"), Field(node, "body"))
      [] node.type = "KeyValueProperty" -> walkChildren(node, st)
      [] node.type = "ClassDeclaration" ->
            popScope(walkChildren(node, pushScope(WithIdentifier(node, st, "class"), "class", node)))
      [] node.type = "BlockStatement" ->
            IF BlockHasOwnScope(node, st.scopes[currentScope(st)])
            THEN popScope(walkChildren(node, pushScope(st, "block", node)))
            ELSE walkChildren(node, st)
      [] node.type \in {"ForStatement", "ForInStatement", "ForOfStatement"} ->
            popScope(walkChildren(node, pushScope(st, "for", node)))
      [] node.type = "CatchClause" ->
            popScope(walkChildren(node, addVars(pushScope(st, "catch", node), Len(st.scopes) + 1,
                                                CollectEach(Field(node, "param"), "catch", node.start))))
      [] node.type = "VariableDeclaration" ->
            WalkDeclarations(Field(node, "declarations"), node.kind, st)
      [] OTHER -> walkChildren(node, st)

\* buildScopeTree(ast, srcLength).scopes
buildScopeTree(ast, srcLength) ==
    walkNode(ast, [scopes |-> <<[type |-> "module", start |-> 0, end |-> srcLength,
                                 vars |-> <<>>, parent |-> 0]>>,
                   stack |-> <<1>>]).scopes

-----------------------------------------------------------------------------
(* External references (refs.mjs): findRefs                                 *)

RECURSIVE PreOrder(_)
RECURSIVE PreOrderList(_)
PreOrderList(nodes) ==
    IF Len(nodes) = 0 THEN <<>> ELSE PreOrder(Head(nodes)) \o PreOrderList(Tail(nodes))

\* the nodes walkAST enters, in order, when no visitor call returns false
PreOrder(node) == <<node>> \o PreOrderList(ChildNodes(node))

\* the visitor of findFuncNodeAt; found is <<>> for null
FuncNodeStep(found, node, a, b) ==
    IF /\ isFunctionNode(node)
       /\ \/ node.start = a
          \/ Abs(node.start - a) < 10 /\ Abs(node.end - b) < 10
       /\ \/ found = <<>>
          \/ Abs(node.start - a) < Abs(found[1].start - a)
    THEN <<node>> ELSE found

RECURSIVE FuncNodeLoop(_, _, _, _)
FuncNodeLoop(nodes, found, a, b) ==
    IF Len(nodes) = 0 THEN found
    ELSE FuncNodeLoop(Tail(nodes), FuncNodeStep(found, Head(nodes), a, b), a, b)

findFuncNodeAt(ast, a, b) == FuncNodeLoop(PreOrder(ast), <<>>, a, b)

\* the identifier test of the visitor of findRefs without any position test
RefOf(node) ==
    IF node.type = "Identifier" /\ node.value # ""
    THEN <<[name |-> node.value, offset |-> node.start]>> ELSE <<>>

RECURSIVE RefWalk(_, _)
RECURSIVE RefWalkList(_, _)
RefWalkList(nodes, funcNode) ==
    IF Len(nodes) = 0 THEN <<>>
    ELSE RefWalk(Head(nodes), funcNode) \o RefWalkList(Tail(nodes), funcNode)

\* walkAST(funcNode, {enter}) of findRefs: refs[] in push order
RefWalk(node, funcNode) ==
    IF node # funcNode /\ isFunctionNode(node) THEN <<>>
    ELSE RefOf(node) \o RefWalkList(ChildNodes(node), funcNode)

VarNames(scope) == {scope.vars[i].name : i \in 1..Len(scope.vars)}

RECURSIVE FirstOccurrences(_, _)
FirstOccurrences(q, seen) ==
    IF Len(q) = 0 THEN <<>>
    ELSE IF Head(q) \in seen THEN FirstOccurrences(Tail(q), seen)
    ELSE <<Head(q)>> \o FirstOccurrences(Tail(q), seen \cup {Head(q)})

GlobalScope == [type |-> "global", start |-> 0, end |-> 0, kind |-> "global", depth |-> -1]

\* the parent-scope lookup loop of findRefs; k is an index into scopes[], 0 for null
RECURSIVE SourceScope(_, _, _, _)
SourceScope(ss, k, name, depth) ==
    IF k = 0 THEN GlobalScope
    ELSE IF name \in VarNames(ss[k])
         THEN LET i == CHOOSE i \in 1..Len(ss[k].vars) :
                          /\ ss[k].vars[i].name = name
                          /\ \A j \in 1..(i - 1) : ss[k].vars[j].name # name
              IN  [type |-> ss[k].type, start |-> ss[k].start, end |-> ss[k].end,
                   kind |-> ss[k].vars[i].kind, depth |-> depth]
         ELSE SourceScope(ss, ss[k].parent, name, depth + 1)

\* byName: one entry per external name, in order of first reference
ByName(ss, target, externalRefs) ==
    LET names == FirstOccurrences([i \in 1..Len(externalRefs) |-> externalRefs[i].name], {})
    IN  [i \in 1..Len(names) |->
            [name |-> names[i],
             offsets |-> LET own == SelectSeq(externalRefs, LAMBDA r : r.name = names[i])
                         IN  [j \in 1..Len(own) |-> own[j].offset],
             sourceScope |-> SourceScope(ss, target.parent, names[i], 1)]]

ScopeKey(e) == <<e.sourceScope.type, e.sourceScope.start>>

\* groups.sort((a, b) => a.scope.depth - b.scope.depth): a stable sort, depths
\* range over -1 (global) and 1..maxDepth
RECURSIVE SortByDepth(_, _, _)
SortByDepth(groups, d, maxDepth) ==
    IF d > maxDepth THEN <<>>
    ELSE SelectSeq(groups, LAMBDA g : g.scope.depth = d) \o SortByDepth(groups, d + 1, maxDepth)

\* byScope in insertion order, then the sort by depth
RefGroups(entries, maxDepth) ==
    LET keys == FirstOccurrences([i \in 1..Len(entries) |-> ScopeKey(entries[i])], {})
        byScope == [i \in 1..Len(keys) |->
                       LET own == SelectSeq(entries, LAMBDA e : ScopeKey(e) = keys[i])
                       IN  [scope |-> own[1].sourceScope, refs |-> own]]
    IN  SortByDepth(byScope, -1, maxDepth)

FindRefsFrom(ss, target, found) ==
    IF found = <<>>
    THEN [error |-> "Could not find function AST node at scope", targetScope |-> target]
    ELSE LET refs == RefWalk(found[1], found[1])
             externalRefs == SelectSeq(refs, LAMBDA r : r.name \notin VarNames(target))
             entries == ByName(ss, target, externalRefs)
         IN  [error |-> "", groups |-> RefGroups(entries, Len(ss)), totalRefs |-> Len(externalRefs),
              uniqueNames |-> Len(entries), targetScope |-> target]

FindRefsAt(ast, ss, target) ==
    IF target.type = "module"
    THEN [error |-> "Offset is at module scope, not inside a function", targetScope |-> target]
    ELSE FindRefsFrom(ss, target, findFuncNodeAt(ast, target.start, target.end))

\* findRefs(ast, src, charOffset); error |-> "" stands for a return value
\* that has no error property
findRefs(ast, text, charOffset) ==
    FindRefsAt(ast, buildScopeTree(ast, Len(text)),
               findScopeAt(buildScopeTree(ast, Len(text)), charOffset))

-----------------------------------------------------------------------------
(* Parsed programs: source texts with the AST the parser returns for them   *)

Ident(name, a) == Node("Identifier", a, a + 1, name, <<>>)
ExprStmt(a, b, expr) == Node("ExpressionStatement", a, b, "", <<Kid("expression", <<expr>>)>>)
Declarator(a, b, id, init) ==
    Node("VariableDeclarator", a, b, "", <<Kid("id", <<id>>), Kid("init", init)>>)
VarDecl(kind, a, b, decls) ==
    [Node("VariableDeclaration", a, b, "", <<Kid("declarations", decls)>>) EXCEPT !.kind = kind]
Block(a, b, stmts) == Node("BlockStatement", a, b, "", <<Kid("stmts", stmts)>>)

\* function NAME(PARAM){ ... } starting at a and ending before b
FunctionDecl(name, param, a, b, stmts) ==
    Node("FunctionDeclaration", a, b, "",
         <<Kid("identifier", <<Ident(name, a + 9)>>),
           Kid("params", <<Node("Parameter", a + 11, a + 12, "",
                                <<Kid("pat", <<Ident(param, a + 11)>>)>>)>>),
           Kid("body", <<Block(a + 13, b, stmts)>>)>>)

RECURSIVE Shift(_, _)
ShiftAll(nodes, d) == [i \in 1..Len(nodes) |-> Shift(nodes[i], d)]
Shift(node, d) ==
    [node EXCEPT !.start = node.start + d, !.end = node.end + d,
                 !.kids = [i \in 1..Len(node.kids) |->
                              Kid(node.kids[i].key, ShiftAll(node.kids[i].val, d))]]

\* statements of a function body, at offset 0
AstUseParam == [text |-> <<"a", ";">>, nodes |-> <<ExprStmt(0, 2, Ident("a", 0))>>]
AstUseOuter == [text |-> <<"g", ";">>, nodes |-> <<ExprStmt(0, 2, Ident("g", 0))>>]
AstVarUse ==
    [text |-> <<"v", "a", "r", " ", "v", "=", "g", ";", "v", ";">>,
     nodes |-> <<VarDecl("var", 0, 8, <<Declarator(4, 7, Ident("v", 4), <<Ident("g", 6)>>)>>),
                 ExprStmt(8, 10, Ident("v", 8))>>]
AstFor ==
    [text |-> <<"f", "o", "r", "(", "v", "a", "r", " ", "i", ";", ";", ")", "i", ";">>,
     nodes |-> <<Node("ForStatement", 0, 14, "",
                      <<Kid("init", <<VarDecl("var", 4, 9, <<Declarator(8, 9, Ident("i", 8), <<>>)>>)>>),
                        Kid("test", <<>>), Kid("update", <<>>),
                        Kid("body", <<ExprStmt(12, 14, Ident("i", 12))>>)>>)>>]
AstCatch ==
    [text |-> <<"t", "r", "y", "{", "}", "c", "a", "t", "c", "h", "(", "e", ")", "{", "l", "e", "t", " ", "t", ";", "t", "}">>,
     nodes |-> <<Node("TryStatement", 0, 22, "",
                      <<Kid("block", <<Block(3, 5, <<>>)>>),
                        Kid("handler",
                            <<Node("CatchClause", 5, 22, "",
                                   <<Kid("param", <<Ident("e", 11)>>),
                                     Kid("body",
                                         <<Block(13, 22,
                                                 <<VarDecl("let", 14, 20,
                                                           <<Declarator(18, 19, Ident("t", 18), <<>>)>>),
                                                   ExprStmt(20, 21, Ident("t", 20))>>)>>)>>)>>),
                        Kid("finalizer", <<>>)>>)>>]
AstBlock ==
    [text |-> <<"{", "l", "e", "t", " ", "b", ";", "b", "}">>,
     nodes |-> <<Block(0, 9, <<VarDecl("let", 1, 7, <<Declarator(5, 6, Ident("b", 5), <<>>)>>),
                               ExprStmt(7, 8, Ident("b", 7))>>)>>]
AstMember ==
    [text |-> <<"o", ".", "p", ";">>,
     nodes |-> <<ExprStmt(0, 4, Node("MemberExpression", 0, 3, "",
                                     <<Kid("object", <<Ident("o", 0)>>),
                                       Kid("property", <<Ident("p", 2)>>)>>))>>]
AstObject ==
    [text |-> <<"(", "{", "k", ":", "a", "}", ")", ";">>,
     nodes |-> <<ExprStmt(0, 8,
                   Node("ParenthesisExpression", 0, 7, "",
                        <<Kid("expression",
                              <<Node("ObjectExpression", 1, 6, "",
                                     <<Kid("properties",
                                           <<Node("KeyValueProperty", 2, 5, "",
                                                  <<Kid("key", <<Ident("k", 2)>>),
                                                    Kid("value", <<Ident("a", 4)>>)>>)>>)>>)>>)>>))>>]
AstNested ==
    [text |-> <<"f", "u", "n", "c", "t", "i", "o", "n", " ", "h", "(", "c", ")", "{", "c", ";", "q", "}">>,
     nodes |-> <<FunctionDecl("h", "c", 0, 18,
                              <<ExprStmt(14, 16, Ident("c", 14)), ExprStmt(16, 17, Ident("q", 16))>>)>>]

BodyStmts == {AstUseParam, AstUseOuter, AstVarUse, AstFor, AstCatch, AstBlock,
              AstMember, AstObject, AstNested}

MaxBodyStmts == 2

RECURSIVE AstSeq(_)
AstSeq(q) ==
    IF Len(q) = 0 THEN [text |-> <<>>, nodes |-> <<>>]
    ELSE LET rest == AstSeq(Tail(q))
         IN  [text |-> Head(q).text \o rest.text,
              nodes |-> Head(q).nodes \o ShiftAll(rest.nodes, Len(Head(q).text))]

Module(text, nodes) ==
    [text |-> text, ast |-> Node("Module", 0, Len(text), "", <<Kid("body", nodes)>>)]

\* var g;function f(a){ BODY }
WrapDeclaration(body) ==
    Module(<<"v", "a", "r", " ", "g", ";", "f", "u", "n", "c", "t", "i", "o", "n", " ", "f", "(", "a", ")", "{">> \o body.text \o <<"}">>,
           <<VarDecl("var", 0, 6, <<Declarator(4, 5, Ident("g", 4), <<>>)>>),
             FunctionDecl("f", "a", 6, 21 + Len(body.text), ShiftAll(body.nodes, 20))>>)

\* var r=(a)=>{ BODY };
WrapArrow(body) ==
    Module(<<"v", "a", "r", " ", "r", "=", "(", "a", ")", "=", ">", "{">> \o body.text \o <<"}", ";">>,
           <<VarDecl("var", 0, 14 + Len(body.text),
                     <<Declarator(4, 13 + Len(body.text), Ident("r", 4),
                                  <<Node("ArrowFunctionExpression", 6, 13 + Len(body.text), "",
                                         <<Kid("params", <<Ident("a", 7)>>),
                                           Kid("body", <<Block(11, 13 + Len(body.text),
                                                               ShiftAll(body.nodes, 12))>>)>>)>>)>>)>>)

ParsedPrograms ==
    UNION {{WrapDeclaration(AstSeq(q)), WrapArrow(AstSeq(q))} : q \in BoundedSeqs(BodyStmts, MaxBodyStmts)}

RefsInit ==
    /\ pc = "ready" /\ result = NoResult
    /\ \E prog \in ParsedPrograms :
          /\ src = prog.text
          /\ tree = prog.ast
          /\ offset \in 0..Len(prog.text)
    /\ scopes = <<>> /\ cli = <<>>
    /\ spans = {} /\ funcStart = -1 /\ extracted = NoResult
    /\ PatchIdle /\ DiffIdle /\ BeautifyIdle

\* the refs command after parsing: findRefs(ast, src, charOffset)
CallFindRefs ==
    /\ pc = "ready"
    /\ scopes' = buildScopeTree(tree, Len(src))
    /\ result' = findRefs(tree, src, offset)
    /\ pc' = "done"
    /\ UNCHANGED <<src, patchVars, extractVars, diffVars, bst, tree, cli>>

RefsNext == CallFindRefs

RefsSpec == RefsInit /\ [][RefsNext]_vars

\* the (name, offset) pairs a findRefs result reports as external references
Reported(r) ==
    UNION {UNION {{[name |-> r.groups[i].refs[j].name, offset |-> r.groups[i].refs[j].offsets[k]] :
                       k \in 1..Len(r.groups[i].refs[j].offsets)} :
                  j \in 1..Len(r.groups[i].refs)} :
           i \in 1..Len(r.groups)}

\* the function node findRefs walked for the result in `result`
WalkedFunction == findFuncNodeAt(tree, result.targetScope.start, result.targetScope.end)[1]

BindingNames(bindings) == {bindings[i].name : i \in 1..Len(bindings)}

\* the names var/let/const declarations bind in the subtree of node, nested
\* functions left out
RECURSIVE DeclaredBelow(_, _)
DeclaredBelow(node, funcNode) ==
    IF node # funcNode /\ isFunctionNode(node) THEN {}
    ELSE (IF node.type = "VariableDeclarator"
          THEN BindingNames(CollectEach(Field(node, "id"), "", 0)) ELSE {})
         \cup UNION {DeclaredBelow(ChildNodes(node)[i], funcNode) : i \in 1..Len(ChildNodes(node))}

\* the names declared locally within a function: its parameters and the
\* variables declared anywhere in its own body
LocalNames(funcNode) ==
    BindingNames(ParamBindings(FunctionField(funcNode, "params"), 0))
    \cup DeclaredBelow(funcNode, funcNode)

\* C13: when findRefs returns references for a function, none of the names
\* it reports as external is declared locally within that function, that is
\* none is a parameter or a var/let/const declared anywhere in the function's
\* own body (for-loop heads, catch clauses and nested blocks included, nested
\* functions excluded).
C13_LocalsNeverExternal ==
    (pc = "done" /\ result.error = "") =>
        {r.name : r \in Reported(result)} \cap LocalNames(WalkedFunction) = {}

\* the offsets of the identifiers that are the property of a member
\* expression or the key of an object-literal property, nested functions
\* left out
RECURSIVE PropertyNameOffsets(_, _)
PropertyNameOffsets(node, funcNode) ==
    IF node # funcNode /\ isFunctionNode(node) THEN {}
    ELSE (IF node.type = "MemberExpression"
          THEN {n.start : n \in {m \in SeqToSet(Field(node, "property")) : m.type = "Identifier"}}
          ELSE IF node.type = "KeyValueProperty"
          THEN {n.start : n \in {m \in SeqToSet(Field(node, "key")) : m.type = "Identifier"}}
          ELSE {})
         \cup UNION {PropertyNameOffsets(ChildNodes(node)[i], funcNode) :
                        i \in 1..Len(ChildNodes(node))}

\* the offsets of all identifiers of the function's own subtree
RECURSIVE OwnIdentifierOffsets(_, _)
OwnIdentifierOffsets(node, funcNode) ==
    IF node # funcNode /\ isFunctionNode(node) THEN {}
    ELSE (IF node.type = "Identifier" THEN {node.start} ELSE {})
         \cup UNION {OwnIdentifierOffsets(ChildNodes(node)[i], funcNode) :
                        i \in 1..Len(ChildNodes(node))}

\* C14: every reference findRefs reports is an identifier of the function's
\* own subtree (nested functions are not descended into) and none is the
\* property name of a member expression or the key of an object literal.
C14_NoPropertyNames ==
    (pc = "done" /\ result.error = "") =>
        /\ {r.offset : r \in Reported(result)} \subseteq OwnIdentifierOffsets(WalkedFunction, WalkedFunction)
        /\ {r.offset : r \in Reported(result)} \cap PropertyNameOffsets(WalkedFunction, WalkedFunction) = {}

-----------------------------------------------------------------------------
(* Shorthand expansion (find.mjs): which text each search mode looks for    *)

MaxTokens == 3

\* the pieces patterns are made of: the two shorthands, a plain character, a
\* lone percent sign and a lone shorthand letter
PatternTokens == {ShorthandV, ShorthandS, <<"a">>, <<"%">>, <<"V">>}

RECURSIVE Concat(_)
Concat(q) == IF Len(q) = 0 THEN <<>> ELSE Head(q) \o Concat(Tail(q))

TokenPatterns == {Concat(q) : q \in BoundedSeqs(PatternTokens, MaxTokens)}

ShorthandInit ==
    /\ pc = "start" /\ result = NoResult /\ src = <<>>
    /\ fn = "findInFunctions"
    /\ regexOpt \in BOOLEAN
    /\ pattern \in TokenPatterns
    /\ idx = 0 /\ matches = <<>>
    /\ ExtractIdle /\ DiffIdle /\ BeautifyIdle /\ ToolIdle

\* findInFunctions up to the search loop: regex mode hands
\* expandShorthands(pattern) to new RegExp, literal mode hands pattern to indexOf
PrepareSearch ==
    /\ pc = "start"
    /\ result' = [searched |-> IF regexOpt THEN expandShorthands(pattern) ELSE pattern]
    /\ pc' = "prepared"
    /\ UNCHANGED <<src, patchVars, extractVars, diffVars, bst, toolVars>>

ShorthandNext == PrepareSearch

ShorthandSpec == ShorthandInit /\ [][ShorthandNext]_vars

\* the expansion of %S% as the rule states it: a double-quoted string with
\* single-backslash escapes,  "(?:[^"\\]|\\.)*"
StatedExpansionS == <<"\"", "(", "?", ":", "[", "^", "\"", "\\", "\\", "]", "|",
                      "\\", "\\", ".", ")", "*", "\"">>

StatedExpansion(p) == ReplaceAll(ReplaceAll(p, ShorthandV, ExpansionV), ShorthandS, StatedExpansionS)

\* C16: in regex mode the expression compiled is the pattern with every %V%
\* replaced by [\w$]+ and every %S% replaced by "(?:[^"\\]|\\.)*" ; in
\* literal mode the text searched for is the pattern itself, unexpanded.
C16_ShorthandExpansion ==
    pc = "prepared" =>
        result.searched = IF regexOpt THEN StatedExpansion(pattern) ELSE pattern

-----------------------------------------------------------------------------
(* Function map (map.mjs): buildFunctionMap and inferName                   *)

AnonymousName == "<anonymous>"

inferName(node) ==
    IF Field(node, "identifier") # <<>> /\ Field(node, "identifier")[1].value # ""
    THEN Field(node, "identifier")[1].value
    ELSE IF Field(node, "key") # <<>> /\ Field(node, "key")[1].type = "Identifier"
    THEN Field(node, "key")[1].value
    ELSE IF Field(node, "key") # <<>> /\ Field(node, "key")[1].value # ""
    THEN Field(node, "key")[1].value
    ELSE AnonymousName

\* the entry pushed for a function node (options.strings not set)
MapEntry(node, text) ==
    [name |-> inferName(node), start |-> node.start, end |-> node.end,
     paramCount |-> Len(FunctionField(node, "params")),
     isAsync |-> node.async \/ (Field(node, "function") # <<>> /\ Field(node, "function")[1].async),
     isGenerator |-> node.generator
                     \/ (Field(node, "function") # <<>> /\ Field(node, "function")[1].generator),
     signature |-> ReplaceAll(Substring(text, node.start, Min(node.start + 120, node.end)),
                              <<"\n">>, <<" ">>)]

\* functions.sort((a, b) => a.start - b.start): a stable sort
RECURSIVE SortByStart(_, _, _)
SortByStart(entries, k, n) ==
    IF k > n THEN <<>>
    ELSE SelectSeq(entries, LAMBDA e : e.start = k) \o SortByStart(entries, k + 1, n)

buildFunctionMap(ast, text) ==
    LET fnodes == SelectSeq(PreOrder(ast), isFunctionNode)
    IN  SortByStart([i \in 1..Len(fnodes) |-> MapEntry(fnodes[i], text)], 0, ast.end)

FunctionExpr(a, b, ident, bodyStart) ==
    Node("FunctionExpression", a, b, "",
         <<Kid("identifier", ident), Kid("params", <<>>),
           Kid("body", <<Block(bodyStart, b, <<>>)>>)>>)

\* top-level statements that hold one function each, at offset 0
MapDeclared ==
    [text |-> <<"f", "u", "n", "c", "t", "i", "o", "n", " ", "d", "(", ")", "{", "}">>,
     nodes |-> <<Node("FunctionDeclaration", 0, 14, "",
                      <<Kid("identifier", <<Ident("d", 9)>>), Kid("params", <<>>),
                        Kid("body", <<Block(12, 14, <<>>)>>)>>)>>]
MapAssigned ==
    [text |-> <<"v", "a", "r", " ", "w", "=", "f", "u", "n", "c", "t", "i", "o", "n", "(", ")", "{", "}", ";">>,
     nodes |-> <<VarDecl("var", 0, 19,
                         <<Declarator(4, 18, Ident("w", 4), <<FunctionExpr(6, 18, <<>>, 16)>>)>>)>>]
MapNamedExpr ==
    [text |-> <<"v", "a", "r", " ", "w", "=", "f", "u", "n", "c", "t", "i", "o", "n", " ", "n", "(", ")", "{", "}", ";">>,
     nodes |-> <<VarDecl("var", 0, 21,
                         <<Declarator(4, 20, Ident("w", 4),
                                      <<FunctionExpr(6, 20, <<Ident("n", 15)>>, 18)>>)>>)>>]
MapArrow ==
    [text |-> <<"v", "a", "r", " ", "r", "=", "(", ")", "=", ">", "1", ";">>,
     nodes |-> <<VarDecl("var", 0, 12,
                         <<Declarator(4, 11, Ident("r", 4),
                                      <<Node("ArrowFunctionExpression", 6, 11, "",
                                             <<Kid("params", <<>>),
                                               Kid("body", <<Node("NumericLiteral", 10, 11, "1",
                                                                  <<>>)>>)>>)>>)>>)>>]
MapProperty ==
    [text |-> <<"(", "{", "k", ":", "f", "u", "n", "c", "t", "i", "o", "n", "(", ")", "{", "}", "}", ")", ";">>,
     nodes |-> <<ExprStmt(0, 19,
                   Node("ParenthesisExpression", 0, 18, "",
                        <<Kid("expression",
                              <<Node("ObjectExpression", 1, 17, "",
                                     <<Kid("properties",
                                           <<Node("KeyValueProperty", 2, 16, "",
                                                  <<Kid("key", <<Ident("k", 2)>>),
                                                    Kid("value", <<FunctionExpr(4, 16, <<>>, 14)>>)>>)>>)>>)>>)>>))>>]
MapMethod ==
    [text |-> <<"(", "{", "m", "(", ")", "{", "}", "}", ")", ";">>,
     nodes |-> <<ExprStmt(0, 10,
                   Node("ParenthesisExpression", 0, 9, "",
                        <<Kid("expression",
                              <<Node("ObjectExpression", 1, 8, "",
                                     <<Kid("properties",
                                           <<Node("MethodProperty", 2, 7, "",
                                                  <<Kid("key", <<Ident("m", 2)>>),
                                                    Kid("params", <<>>),
                                                    Kid("body", <<Block(5, 7, <<>>)>>)>>)>>)>>)>>)>>))>>]
\* the function property of a class method is an object without a type
MapClass ==
    [text |-> <<"c", "l", "a", "s", "s", " ", "C", "{", "m", "(", ")", "{", "}", "}">>,
     nodes |-> <<Node("ClassDeclaration", 0, 14, "",
                      <<Kid("identifier", <<Ident("C", 6)>>),
                        Kid("body",
                            <<Node("ClassMethod", 8, 13, "",
                                   <<Kid("key", <<Ident("m", 8)>>),
                                     Kid("function",
                                         <<Node("", 8, 13, "",
                                                <<Kid("params", <<>>),
                                                  Kid("body", <<Block(11, 13, <<>>)>>)>>)>>)>>)>>)>>)>>]
MapUnnamed ==
    [text |-> <<"(", "f", "u", "n", "c", "t", "i", "o", "n", "(", ")", "{", "}", ")", ";">>,
     nodes |-> <<ExprStmt(0, 15,
                   Node("ParenthesisExpression", 0, 14, "",
                        <<Kid("expression", <<FunctionExpr(1, 13, <<>>, 11)>>)>>))>>]

MapStmts == {MapDeclared, MapAssigned, MapNamedExpr, MapArrow, MapProperty, MapMethod,
             MapClass, MapUnnamed}

MaxMapStmts == 2

MapPrograms ==
    {Module(AstSeq(q).text, AstSeq(q).nodes) : q \in BoundedSeqs(MapStmts, MaxMapStmts)}

MapInit ==
    /\ pc = "ready" /\ result = NoResult
    /\ \E prog \in MapPrograms : src = prog.text /\ tree = prog.ast
    /\ scopes = <<>> /\ cli = <<>>
    /\ PatchIdle /\ ExtractIdle /\ DiffIdle /\ BeautifyIdle

\* the map command after parsing: buildFunctionMap(ast, src, {})
CallBuildFunctionMap ==
    /\ pc = "ready"
    /\ result' = [map |-> buildFunctionMap(tree, src)]
    /\ pc' = "done"
    /\ UNCHANGED <<src, patchVars, extractVars, diffVars, bst, toolVars>>

MapNext == CallBuildFunctionMap

MapSpec == MapInit /\ [][MapNext]_vars

\* the identifier value at node[key], "" when there is none
NameAt(node, key) ==
    IF Field(node, key) # <<>> THEN Field(node, key)[1].value ELSE ""

\* the name the rule gives a function node met under the node `parent`:
\* its declared identifier, else the variable of the declarator it
\* initialises, else the key of the property it is the value of or its own
\* method key, else <anonymous>
StatedName(node, parent) ==
    IF NameAt(node, "identifier") # "" THEN NameAt(node, "identifier")
    ELSE IF parent.type = "VariableDeclarator" /\ Field(parent, "init") = <<node>>
              /\ NameAt(parent, "id") # ""
    THEN NameAt(parent, "id")
    ELSE IF parent.type = "KeyValueProperty" /\ Field(parent, "value") = <<node>>
              /\ NameAt(parent, "key") # ""
    THEN NameAt(parent, "key")
    ELSE IF NameAt(node, "key") # "" THEN NameAt(node, "key")
    ELSE AnonymousName

\* the (start, stated name) pairs of the function nodes below a node
RECURSIVE StatedNames(_, _)
StatedNames(node, parent) ==
    (IF isFunctionNode(node) THEN {<<node.start, StatedName(node, parent)>>} ELSE {})
    \cup UNION {StatedNames(ChildNodes(node)[i], node) : i \in 1..Len(ChildNodes(node))}

\* C17: buildFunctionMap names each function by its declared identifier,
\* otherwise by the variable a declarator assigns it to, otherwise by the
\* object key or class-method key it is the value of, and <anonymous> only
\* when none of these exists.
C17_NamesInferred ==
    pc = "done" =>
        {<<result.map[i].start, result.map[i].name>> : i \in 1..Len(result.map)}
            = StatedNames(tree, tree)

-----------------------------------------------------------------------------
(* Command line (cli.mjs): patch-check, match and beautify                  *)

\* cli.exitCode is -1 while the process runs

CliInit ==
    /\ pc = "cli" /\ result = NoResult
    /\ src \in BoundedSeqs(PatchAlphabet, MaxSrcLen)
    /\ \E command \in {"patch-check", "match", "beautify"}, readable \in BOOLEAN :
          /\ cli = [command |-> command, readable |-> readable, exitCode |-> -1, files |-> {}]
          /\ fn = CASE command = "patch-check" -> "checkPatch"
                    [] command = "match" -> "matchPattern"
                    [] command = "beautify" -> "none"
    /\ regexOpt \in CASE fn = "checkPatch" -> BOOLEAN
                      [] fn = "matchPattern" -> {TRUE}
                      [] fn = "none" -> {FALSE}
    /\ pattern \in IF fn = "none" THEN {<<>>}
                   ELSE IF regexOpt THEN RegexPatterns ELSE LiteralPatterns
    /\ idx = 0 /\ matches = <<>>
    /\ scopes = <<>> /\ tree = <<>>
    /\ ExtractIdle /\ DiffIdle /\ BeautifyIdle

\* process.exit(code), or the end of main() for code 0
Exit(code) == [cli EXCEPT !.exitCode = code]

\* case 'patch-check' and case 'match' up to the call of the analysis: an
\* empty pattern is rejected, readSrc throws on an unreadable file and
\* main().catch exits with 1
CliDispatch ==
    /\ pc = "cli" /\ cli.command \in {"patch-check", "match"}
    /\ IF pattern = <<>> \/ ~cli.readable
       THEN pc' = "exited" /\ cli' = Exit(1)
       ELSE pc' = "start" /\ UNCHANGED cli
    /\ UNCHANGED <<result, src, patchVars, extractVars, diffVars, bst, scopes, tree>>

\* match exits like patch-check: 1 for every status but UNIQUE
ExitCodeOf_OneForAll(command, status) == IF status # "UNIQUE" THEN 1 ELSE 0

\* the process.exit calls that end the two cases
ExitCodeOf(command, status) ==
    IF command = "match"
    THEN IF status = "NOT_FOUND" THEN 1 ELSE IF status = "AMBIGUOUS" THEN 2 ELSE 0
    ELSE IF status # "UNIQUE" THEN 1 ELSE 0

\* the analysis returned: the report and the exit
CliFinish ==
    /\ pc = "done" /\ cli.command \in {"patch-check", "match"}
    /\ cli' = Exit(ExitCodeOf(cli.command, result.status))
    /\ pc' = "exited"
    /\ UNCHANGED <<result, src, patchVars, extractVars, diffVars, bst, scopes, tree>>

\* the analysis threw (main().catch exits with 1) or the heap ran out (the
\* runtime aborts the process, exit code 134)
CliFail ==
    /\ pc \in {"threw", "exhausted"}
    /\ cli' = Exit(IF pc = "threw" THEN 1 ELSE 134)
    /\ pc' = "exited"
    /\ UNCHANGED <<result, src, patchVars, extractVars, diffVars, bst, scopes, tree>>

\* what a writeFileSync that fails can leave at the path: nothing, or a file
\* that was created and not completely written
FailedWrite(path) == {{}, {[path |-> path, complete |-> FALSE]}}

\* case 'beautify' up to writeFileSync(outputPath, text)
BeautifyWriteOutput ==
    /\ pc = "cli" /\ cli.command = "beautify"
    /\ IF ~cli.readable
       THEN pc' = "exited" /\ cli' = Exit(1) /\ UNCHANGED result
       ELSE /\ result' = beautify(src)
            /\ \/ /\ cli' = [cli EXCEPT !.files = @ \cup {[path |-> "output", complete |-> TRUE]}]
                  /\ pc' = "wrote"
               \/ /\ \E left \in FailedWrite("output") :
                        cli' = [cli EXCEPT !.files = @ \cup left, !.exitCode = 1]
                  /\ pc' = "exited"
    /\ UNCHANGED <<src, patchVars, extractVars, diffVars, bst, scopes, tree>>

\* writeFileSync(mapPath, JSON.stringify(offsetMap)) and the end of the case
BeautifyWriteMap ==
    /\ pc = "wrote"
    /\ \/ cli' = [cli EXCEPT !.files = @ \cup {[path |-> "offsetmap", complete |-> TRUE]},
                             !.exitCode = 0]
       \/ \E left \in FailedWrite("offsetmap") :
             cli' = [cli EXCEPT !.files = @ \cup left, !.exitCode = 1]
    /\ pc' = "exited"
    /\ UNCHANGED <<result, src, patchVars, extractVars, diffVars, bst, scopes, tree>>

CliNext ==
    \/ CliDispatch \/ PatchBegin \/ LiteralIteration \/ RegexIteration \/ HeapExhausted
    \/ CliFinish \/ CliFail \/ BeautifyWriteOutput \/ BeautifyWriteMap

CliSpec == CliInit /\ [][CliNext]_vars

HasStatus == "status" \in DOMAIN result

\* C18: match and patch-check exit with 0 exactly when the status is UNIQUE;
\* match exits with 1 on NOT_FOUND and with 2 on AMBIGUOUS; patch-check exits
\* with a non-zero code on NOT_FOUND and on AMBIGUOUS.
C18_ExitCodes ==
    (pc = "exited" /\ cli.command \in {"patch-check", "match"}) =>
        /\ cli.exitCode = 0 <=> (HasStatus /\ result.status = "UNIQUE")
        /\ (HasStatus /\ cli.command = "match" /\ result.status = "NOT_FOUND") => cli.exitCode = 1
        /\ (HasStatus /\ cli.command = "match" /\ result.status = "AMBIGUOUS") => cli.exitCode = 2
        /\ (HasStatus /\ cli.command = "patch-check" /\ result.status # "UNIQUE") => cli.exitCode # 0

\* match has found several matches and has exited with 2
C18_AmbiguousMatchExited ==
    /\ pc = "exited" /\ cli.command = "match"
    /\ HasStatus /\ result.status = "AMBIGUOUS" /\ Len(result.matches) > 1
    /\ cli.exitCode = 2

\* C19: when the beautify command fails at any step, a failure of the second
\* write included, no new or partially written output file is left on disk.
C19_BeautifyAtomic ==
    (pc = "exited" /\ cli.command = "beautify" /\ cli.exitCode # 0) => cli.files = {}

-----------------------------------------------------------------------------
(* The slash rule of the state machine: regex, division or comment          *)

MaxBlanks == 1

\* the characters a slash is met after: the seventeen the rule lists, and an
\* identifier character, a digit and the three closing brackets
SlashPrefixes ==
    {"=", "(", ":", ";", ",", "!", "&", "|", "?", "{", "[", "+", "-", ">", "~", "%", "^",
     "a", "0", ")", "]", "}"}

\* an optional character, blanks, a slash and the character after it
SlashPrograms ==
    {before \o blanks \o <<"/">> \o after :
        before \in {<<>>} \cup {<<c>> : c \in SlashPrefixes},
        blanks \in BoundedSeqs({" ", "\t", "\n"}, MaxBlanks),
        after \in {<<>>, <<"/">>, <<"*">>, <<"a">>}}

SlashInit ==
    /\ pc = "scan" /\ result = NoResult
    /\ src \in SlashPrograms
    /\ bst = BInit
    /\ PatchIdle /\ ExtractIdle /\ DiffIdle /\ ToolIdle

SlashSpec == SlashInit /\ [][BeautifyNext]_vars

\* the last character of the first k characters of s that is not white
\* space, "" when there is none
LastNonWhiteSpace(s, k) ==
    LET at == {j \in 1..k : s[j] \notin WhiteSpace}
    IN  IF at = {} THEN "" ELSE s[CHOOSE j \in at : \A h \in at : h <= j]

\* the characters after which the rule lets a slash open a regex
StatedRegexContext ==
    {"=", "(", ":", ";", ",", "!", "&", "|", "?", "{", "[", "+", "-", ">", "~", "%", "^"}

\* the machine is in Normal and reads a slash
ReadsSlashInNormal ==
    /\ pc = "scan" /\ bst.i < Len(src)
    /\ bst.sm.state = S_NORMAL
    /\ src[bst.i + 1] = "/"
    /\ bst'.i = bst.i + 1

SlashRule ==
    IF CharAt(src, bst.i + 1) = "/" THEN bst'.sm.state = S_COMMENT_LINE
    ELSE IF CharAt(src, bst.i + 1) = "*" THEN bst'.sm.state = S_COMMENT_BLOCK
    ELSE IF LastNonWhiteSpace(src, bst.i) = "" \/ LastNonWhiteSpace(src, bst.i) \in StatedRegexContext
    THEN bst'.sm.state = S_REGEX
    ELSE bst'.sm.state = S_NORMAL

\* C20: from Normal, a slash followed by a slash opens a line comment and a
\* slash followed by a star opens a block comment, whatever precedes; any
\* other slash enters Regex if and only if the last non-white-space character
\* is absent or one of = ( : ; , ! & | ? { [ + - > ~ % ^ , and leaves the
\* machine in Normal after any other character.
C20_SlashRule == [][ReadsSlashInNormal => SlashRule]_vars

\* a slash after "=" and a blank has opened a regex
C20_RegexAfterBlankReached ==
    /\ pc = "scan" /\ src = <<"=", " ", "/", "a">> /\ bst.i = 3
    /\ bst.sm.state = S_REGEX

\* a slash after a closing bracket has been read as a division
C20_DivisionReached ==
    /\ pc = "scan" /\ src = <<")", "/", "a">> /\ bst.i = 2
    /\ bst.sm.state = S_NORMAL

----------------------------------------------------------------------------
(* The state machine over arbitrary text (part_009)                         *)

MaxMachineLen == 4

\* the characters advanceState tells apart, and one it does not
MachineAlphabet == {"a", "\\", "'", "\"", Backtick, "/", "*", "$", "{", "}", "\n"}

MaxCommentBody == 1
MaxFollow == 1

\* a block comment that opens the text, closed, and the characters after it
ClosedComments ==
    {<<"/", "*">> \o body \o <<"*", "/">> \o follow :
        body \in BoundedSeqs({"a", "*"}, MaxCommentBody),
        follow \in BoundedSeqs(MachineAlphabet, MaxFollow)}

MachineInit ==
    /\ pc = "scan" /\ result = NoResult
    /\ src \in BoundedSeqs(MachineAlphabet, MaxMachineLen) \cup ClosedComments
    /\ bst = BInit
    /\ PatchIdle /\ ExtractIdle /\ DiffIdle /\ ToolIdle

MachineSpec == MachineInit /\ [][BeautifyNext]_vars

\* the modes in which a backslash escapes
EscapingModes == {S_STRING_SINGLE, S_STRING_DOUBLE, S_TEMPLATE, S_REGEX}

\* the number of backslashes that end at the k-th character of s
RECURSIVE BackslashRun(_, _)
BackslashRun(s, k) ==
    IF k >= 1 /\ s[k] = "\\" THEN 1 + BackslashRun(s, k - 1) ELSE 0

\* the character the machine reads next follows an unescaped backslash of
\* the literal the machine is in: no backslash opens or closes a literal, so
\* the backslashes that end at the offset all lie in that literal, and the
\* last of them is unescaped when their number is odd
AfterUnescapedBackslash ==
    /\ bst.sm.state \in EscapingModes
    /\ BackslashRun(src, bst.i) % 2 = 1

\* the machine reads one more character
ReadsOne == pc = "scan" /\ bst.i < Len(src) /\ bst'.i = bst.i + 1

\* the character that closes the literal of a mode
Closer(sm) ==
    CASE sm.state = S_STRING_SINGLE -> "'"
      [] sm.state = S_STRING_DOUBLE -> "\""
      [] sm.state = S_REGEX -> "/"
      [] sm.state = S_TEMPLATE -> IF sm.templateDepth = 0 THEN Backtick ELSE ""
      [] OTHER -> ""

\* C21: in StringSingle, StringDouble, Template and Regex the character that
\* follows an unescaped backslash is consumed without a change of mode or of
\* template depth, the backslash itself changes neither, and the escape
\* covers that one character only: the closing character of the literal,
\* read when it does not follow an unescaped backslash, returns to Normal.
C21_EscapeOneCharacter ==
    [][ReadsOne /\ bst.sm.state \in EscapingModes =>
         IF AfterUnescapedBackslash \/ src[bst.i + 1] = "\\"
         THEN /\ bst'.sm.state = bst.sm.state
              /\ bst'.sm.templateDepth = bst.sm.templateDepth
         ELSE src[bst.i + 1] = Closer(bst.sm) => bst'.sm.state = S_NORMAL]_vars

\* an escaped double quote has been read and the string is still open
C21_EscapedQuoteReached ==
    /\ pc = "scan" /\ src = <<"\"", "\\", "\"", "\"">> /\ bst.i = 3
    /\ bst.sm.state = S_STRING_DOUBLE

\* the text opens with a block comment; the offset right after the first
\* star-slash that lies past the opening two characters, 0 when there is none
CommentEnd(s) ==
    LET at == {j \in 3..(Len(s) - 1) : s[j] = "*" /\ s[j + 1] = "/"}
    IN  IF Len(s) >= 2 /\ s[1] = "/" /\ s[2] = "*" /\ at # {}
        THEN (CHOOSE j \in at : \A h \in at : j <= h) + 1
        ELSE 0

\* C22: from BlockComment the closing star-slash returns to Normal: once
\* both characters have been consumed the mode is Normal, whatever character
\* follows.
C22_CommentCloseToNormal ==
    pc = "scan" /\ CommentEnd(src) > 0 /\ bst.i = CommentEnd(src)
        => bst.sm.state = S_NORMAL

\* C23: in Template mode an unescaped backtick returns to Normal if and only
\* if the depth is 0; the depth grows by one on each dollar-brace, shrinks by
\* one on a closing brace only when it is positive, changes on no other
\* character, and is never negative.
C23_TemplateDepth ==
    [][ReadsOne /\ bst.sm.state = S_TEMPLATE /\ ~AfterUnescapedBackslash =>
         LET ch == src[bst.i + 1]
             nextCh == CharAt(src, bst.i + 1)
             depth == bst.sm.templateDepth
         IN  /\ depth >= 0
             /\ ch = Backtick => (bst'.sm.state = S_NORMAL <=> depth = 0)
             /\ bst'.sm.templateDepth =
                    IF ch = "$" /\ nextCh = "{" THEN depth + 1
                    ELSE IF ch = "}" /\ depth > 0 THEN depth - 1
                    ELSE depth
             /\ bst'.sm.templateDepth >= 0]_vars

\* a backtick has been read at depth 1 and the template is still open
C23_NestedBacktickReached ==
    /\ pc = "scan" /\ src = <<Backtick, "$", "{", Backtick>> /\ bst.i = 4
    /\ bst.sm.state = S_TEMPLATE /\ bst.sm.templateDepth = 1

\* a closing brace has been read at depth 0 and the depth is still 0
C23_BraceAtZeroReached ==
    /\ pc = "scan" /\ src = <<Backtick, "}", Backtick>> /\ bst.i = 2
    /\ bst.sm.state = S_TEMPLATE /\ bst.sm.templateDepth = 0

\* C30: after any sequence of advanceState steps from the initial state,
\* escaped is true only in StringSingle, StringDouble, Template or Regex, and
\* templateDepth is 0 whenever the mode is not Template.
C30_FlagsInert ==
    /\ bst.sm.escaped => bst.sm.state \in EscapingModes
    /\ bst.sm.state # S_TEMPLATE => bst.sm.templateDepth = 0

\* the depth of an open template has gone up to 1 and back to 0
C30_AfterTemplateReached ==
    /\ pc = "scan" /\ src = <<Backtick, "$", "{", "}">> /\ bst.i = 4
    /\ bst.sm.state = S_TEMPLATE /\ bst.sm.templateDepth = 0

\* a backslash has been read in Normal and in a line comment
C30_BackslashOutsideReached ==
    /\ pc = "scan" /\ src = <<"\\", "/", "/", "\\">> /\ bst.i = 4
    /\ bst.sm.state = S_COMMENT_LINE /\ ~bst.sm.escaped

----------------------------------------------------------------------------
(* The boundary scanner on arrows without a brace body (extract-fn.mjs)     *)

MaxArrowDepth == 2

\* bodies that hold an arrow with an expression body: alone, followed by a
\* statement with a block, and with a parenthesised parameter before a block
ArrowLeaves ==
    {[text |-> <<"x", "=", ">", "y">>, spans |-> {}],
     [text |-> <<"x", "=", ">", "y", ";", "i", "f", "(", "c", ")", "{", "d", "}">>,
      spans |-> {}],
     [text |-> <<"(", "a", ")", "=", ">", "y", ";", "{", "z", "}">>, spans |-> {}]}

\* the function forms the scanner finds and extracts
ArrowWrappers == {FormRegular, FormAsync, FormGenerator, FormArrow}

RECURSIVE ArrowProgramsOfDepth(_)
ArrowProgramsOfDepth(d) ==
    IF d = 0 THEN ArrowLeaves
    ELSE {Wrap(f, b) : f \in ArrowWrappers, b \in ArrowProgramsOfDepth(d - 1)}

ArrowPrograms == UNION {ArrowProgramsOfDepth(d) : d \in 1..MaxArrowDepth}

ArrowInit ==
    /\ pc = "ready"
    /\ result = NoResult
    /\ \E prog \in ArrowPrograms :
          /\ src = prog.text
          /\ spans = prog.spans
          /\ offset \in 0..(Len(prog.text) - 1)
    /\ funcStart = -1
    /\ extracted = NoResult
    /\ PatchIdle /\ DiffIdle /\ BeautifyIdle /\ ToolIdle

ArrowSpec == ArrowInit /\ [][ExtractNext]_vars

\* the offset is the first character of the expression body of an arrow
InArrowExpression ==
    /\ offset >= 2
    /\ src[offset - 1] = "=" /\ src[offset] = ">"
    /\ src[offset + 1] # "{"

\* C24: for an offset inside the expression body of an arrow without a brace
\* body, findFunctionStart returns the start of the nearest enclosing
\* function with a brace body, never a tighter span that starts at the arrow,
\* whatever follows the arrow.
C24_BraceLessArrow ==
    (pc = "found" /\ InArrowExpression /\ Containing # {}) =>
        funcStart = Innermost[1]

----------------------------------------------------------------------------
(* The size bin of the fingerprint (diff-fns.mjs)                           *)

MaxBinStep == 20

\* body sizes from 1000 up, ten apart
BinSizes == {1000 + 10 * k : k \in 0..MaxBinStep}

\* a map of one function of the given size
BinMap(size) ==
    <<[name |-> "<anonymous>", start |-> 0, end |-> size,
       paramCount |-> 1, isAsync |-> FALSE, isGenerator |-> FALSE,
       strings |-> <<<<"x">>, <<"y">>>>]>>

BinInit ==
    /\ pc = "ready"
    /\ result = NoResult
    /\ src = <<>>
    /\ map1 \in {BinMap(size) : size \in BinSizes}
    /\ map2 \in {BinMap(size) : size \in BinSizes}
    /\ diff = NoDiff
    /\ rdiff = NoDiff
    /\ PatchIdle /\ ExtractIdle /\ BeautifyIdle /\ ToolIdle

BinSpec == BinInit /\ [][DiffNext]_vars

\* the size bin in the fingerprint of a function
BinOf(f) == fingerprint(f)[4]

\* C29: sizeBin quantizes a body size to the nearest 10%: 1000 gives 1000,
\* 1050 gives 1000 and 1150 gives 1200.
C29_SizeBinExamples ==
    pc = "forward" =>
        LET size == map1[1].end - map1[1].start
        IN  /\ size = 1000 => BinOf(map1[1]) = 1000
            /\ size = 1050 => BinOf(map1[1]) = 1000
            /\ size = 1150 => BinOf(map1[1]) = 1200

----------------------------------------------------------------------------
(* The fuzzy pass of the cross-version diff (diff-fns.mjs)                  *)

MaxFuzzyFns == 2

\* size, parameter count and string set: the sets x, xy and xyz have Jaccard
\* scores 1/3, 1/2 and 2/3 with each other, on both sides of the threshold
FuzzyShapes ==
    {[size |-> 20, paramCount |-> 1, strings |-> <<>>],
     [size |-> 20, paramCount |-> 1, strings |-> <<<<"x">>>>],
     [size |-> 20, paramCount |-> 1, strings |-> <<<<"x">>, <<"y">>>>],
     [size |-> 20, paramCount |-> 1, strings |-> <<<<"x">>, <<"y">>, <<"z">>>>],
     [size |-> 40, paramCount |-> 1, strings |-> <<<<"x">>, <<"y">>, <<"z">>>>],
     [size |-> 20, paramCount |-> 0, strings |-> <<<<"x">>, <<"y">>>>]}

\* the map of the functions of the given shapes, laid out 100 apart
FuzzyMap(shapes) ==
    [k \in 1..Len(shapes) |->
        [name |-> "<anonymous>", start |-> 100 * (k - 1),
         end |-> 100 * (k - 1) + shapes[k].size,
         paramCount |-> shapes[k].paramCount, isAsync |-> FALSE, isGenerator |-> FALSE,
         strings |-> shapes[k].strings]]

FuzzyMaps == {FuzzyMap(shapes) : shapes \in BoundedSeqs(FuzzyShapes, MaxFuzzyFns)}

FuzzyInit ==
    /\ pc = "ready"
    /\ result = NoResult
    /\ src = <<>>
    /\ map1 \in FuzzyMaps
    /\ map2 \in FuzzyMaps
    /\ diff = NoDiff
    /\ rdiff = NoDiff
    /\ PatchIdle /\ ExtractIdle /\ BeautifyIdle /\ ToolIdle

FuzzySpec == FuzzyInit /\ [][DiffNext]_vars

\* the Jaccard similarity of two string sets, as a fraction
SetJaccard(f1, f2) ==
    <<Cardinality(SeqToSet(f1.strings) \cap SeqToSet(f2.strings)),
      Cardinality(SeqToSet(f1.strings) \cup SeqToSet(f2.strings))>>

\* the positions in map2 still unmatched when the v1 function of the j-th
\* modified pair is processed: those the exact pass and the earlier modified
\* pairs have not taken
UnmatchedAt(j) ==
    (1..Len(map2)) \ ({diff.unchanged[h].i2 : h \in 1..Len(diff.unchanged)}
                      \cup {diff.modified[h].i2 : h \in 1..(j - 1)})

\* the j-th modified pair joins functions of equal parameter count with
\* non-empty string sets whose Jaccard similarity, recorded as similarity,
\* is above 1/2 and at most 1
ModifiedPairSound(j) ==
    LET f1 == map1[diff.modified[j].i1]
        f2 == map2[diff.modified[j].i2]
        sim == diff.modified[j].similarity
    IN  /\ f1.paramCount = f2.paramCount
        /\ Len(f1.strings) > 0 /\ Len(f2.strings) > 0
        /\ sim[1] * SetJaccard(f1, f2)[2] = SetJaccard(f1, f2)[1] * sim[2]
        /\ 2 * sim[1] > sim[2] /\ sim[1] <= sim[2]

\* no function of the candidates has a higher Jaccard similarity with the v1
\* function of the j-th modified pair than the v2 function chosen
BestAmong(j, candidates) ==
    LET f1 == map1[diff.modified[j].i1]
        f2 == map2[diff.modified[j].i2]
    IN  \A k \in candidates : ~FracGreater(SetJaccard(f1, map2[k]), SetJaccard(f1, f2))

\* C27 as stated: every modified pair has equal parameter counts, non-empty
\* string sets and a Jaccard similarity above 0.5 recorded as similarity, and
\* the chosen v2 function has the highest Jaccard similarity among the v2
\* functions still unmatched when the v1 function is processed.
C27_ModifiedBestOfUnmatched ==
    pc = "forward" =>
        \A j \in 1..Len(diff.modified) :
            ModifiedPairSound(j) /\ BestAmong(j, UnmatchedAt(j))

\* C27 amended: the chosen v2 function has the highest Jaccard similarity
\* among the unmatched v2 functions that have the parameter count of the v1
\* function.
C27_ModifiedBestOfEligible ==
    pc = "forward" =>
        \A j \in 1..Len(diff.modified) :
            /\ ModifiedPairSound(j)
            /\ BestAmong(j, {k \in UnmatchedAt(j) :
                   map2[k].paramCount = map1[diff.modified[j].i1].paramCount})

\* a v1 function has been paired with the better of two unmatched candidates
\* of its parameter count, the second in map order
C27_BetterOfTwoReached ==
    /\ pc = "forward"
    /\ Len(map1) = 1 /\ Len(map2) = 2 /\ Len(diff.modified) = 1
    /\ diff.modified[1].i2 = 2
    /\ map2[1].paramCount = map1[1].paramCount
    /\ FracGreater(SetJaccard(map1[1], map2[1]), <<1, 2>>)
    /\ FracGreater(SetJaccard(map1[1], map2[2]), SetJaccard(map1[1], map2[1]))

----------------------------------------------------------------------------
(* Block scopes of the scope tree (scope.mjs)                               *)

\* the blocks that are the immediate body of a function or an arrow
FunctionBodies ==
    UNION {SeqToSet(FunctionField(PreOrder(tree)[i], "body")) :
              i \in {h \in 1..Len(PreOrder(tree)) : isFunctionNode(PreOrder(tree)[h])}}

\* every other block statement of the program
NestedBlocks ==
    {n \in SeqToSet(PreOrder(tree)) : n.type = "BlockStatement"} \ FunctionBodies

\* the names that let and const declarations bind as statements of a block
LetConstIn(block) ==
    UNION {UNION {BindingNames(CollectEach(Field(Field(stmt, "declarations")[d], "id"), "", 0)) :
                     d \in 1..Len(Field(stmt, "declarations"))} :
              stmt \in {st \in SeqToSet(Field(block, "stmts")) :
                           st.type = "VariableDeclaration" /\ st.kind \in {"let", "const"}}}

\* C26: buildScopeTree opens a Block scope for every block statement except
\* the immediate body block of a function or arrow; a block nested inside a
\* function body gets its own scope, and the let and const declared in it
\* are bound in that scope.
C26_NestedBlockScopes ==
    pc = "done" =>
        \A n \in NestedBlocks :
            \E k \in 1..Len(scopes) :
                /\ scopes[k].type = "block"
                /\ scopes[k].start = n.start /\ scopes[k].end = n.end
                /\ LetConstIn(n) \subseteq BindingNames(scopes[k].vars)

----------------------------------------------------------------------------
(* The extract-fn command and its AST fallback (cli.mjs)                    *)

MaxFallbackDepth == 2

\* fns.find(fn => fn.start <= charOffset && fn.end >= charOffset), 0 for undefined
FindEnclosing(fns, charOffset) ==
    LET hits == {k \in 1..Len(fns) : fns[k].start <= charOffset /\ fns[k].end >= charOffset}
    IN  IF hits = {} THEN 0 ELSE CHOOSE k \in hits : \A h \in hits : k <= h

\* the result object the fallback builds from the enclosing map entry
FallbackResult(text, enclosing) ==
    [error |-> "",
     signature |-> Trim(Substring(enclosing.signature, 0,
                      IF IndexOf(enclosing.signature, <<"{">>, 0) >= 0
                      THEN IndexOf(enclosing.signature, <<"{">>, 0)
                      ELSE Len(enclosing.signature))),
     start |-> enclosing.start, end |-> enclosing.end,
     length |-> enclosing.end - enclosing.start,
     paramList |-> <<>>,
     beautified |-> beautify(Substring(text, enclosing.start, enclosing.end)).text,
     note |-> "(extracted via AST fallback)"]

\* the fallback branch: the first entry of the function map that contains
\* the offset, the failed result when there is none
AstFallback(text, fns, charOffset, failed) ==
    IF FindEnclosing(fns, charOffset) = 0 THEN failed
    ELSE FallbackResult(text, fns[FindEnclosing(fns, charOffset)])

\* case 'extract-fn' without --stack and --depth: the result that is printed
ExtractFnCommand(text, ast, charOffset, noAstFallback, first) ==
    IF first.error # "" /\ ~noAstFallback
    THEN AstFallback(text, buildFunctionMap(ast, text), charOffset, first)
    ELSE first

\* function bodies without a function, at offset 0
FallbackLeaves == {[text |-> <<"z">>, nodes |-> <<ExprStmt(0, 1, Ident("z", 0))>>],
                   AstUseParam}

\* x=>{ BODY }   the end scan of extractFunction finds no parameter list
FallbackArrow(body) ==
    [text |-> <<"x", "=", ">", "{">> \o body.text \o <<"}">>,
     nodes |-> <<ExprStmt(0, 5 + Len(body.text),
                   Node("ArrowFunctionExpression", 0, 5 + Len(body.text), "",
                        <<Kid("params", <<Ident("x", 0)>>),
                          Kid("body", <<Block(3, 5 + Len(body.text),
                                              ShiftAll(body.nodes, 4))>>)>>))>>]

\* function f(a){ BODY }   extracted by the state machine
FallbackFunction(body) ==
    [text |-> <<"f", "u", "n", "c", "t", "i", "o", "n", " ", "f", "(", "a", ")", "{">>
              \o body.text \o <<"}">>,
     nodes |-> <<FunctionDecl("f", "a", 0, 15 + Len(body.text), ShiftAll(body.nodes, 14))>>]

\* ({m(){ BODY }})   a method the boundary scanner does not detect
FallbackMethod(body) ==
    [text |-> <<"(", "{", "m", "(", ")", "{">> \o body.text \o <<"}", "}", ")">>,
     nodes |-> <<ExprStmt(0, 9 + Len(body.text),
                   Node("ParenthesisExpression", 0, 9 + Len(body.text), "",
                        <<Kid("expression",
                              <<Node("ObjectExpression", 1, 8 + Len(body.text), "",
                                     <<Kid("properties",
                                           <<Node("MethodProperty", 2, 7 + Len(body.text), "",
                                                  <<Kid("key", <<Ident("m", 2)>>),
                                                    Kid("params", <<>>),
                                                    Kid("body",
                                                        <<Block(5, 7 + Len(body.text),
                                                                ShiftAll(body.nodes, 6))>>)>>)>>)>>)>>)>>))>>]

RECURSIVE FallbackBodies(_)
FallbackBodies(d) ==
    IF d = 0 THEN FallbackLeaves
    ELSE UNION {{FallbackArrow(b), FallbackFunction(b), FallbackMethod(b)} :
                   b \in FallbackBodies(d - 1)}

FallbackPrograms ==
    UNION {{Module(b.text, b.nodes) : b \in FallbackBodies(d)} : d \in 1..MaxFallbackDepth}

FallbackInit ==
    /\ pc = "ready" /\ result = NoResult
    /\ \E prog \in FallbackPrograms :
          /\ src = prog.text
          /\ tree = prog.ast
          /\ offset \in 0..(Len(prog.text) - 1)
    /\ \E noAstFallback \in BOOLEAN :
          cli = [command |-> "extract-fn", noAstFallback |-> noAstFallback, exitCode |-> -1]
    /\ scopes = <<>>
    /\ spans = {} /\ funcStart = -1 /\ extracted = NoResult
    /\ PatchIdle /\ DiffIdle /\ BeautifyIdle

\* the extract-fn command: extractFunction, the fallback when it fails and is
\* not switched off, then exit(1) on an error
CallExtractFn ==
    /\ pc = "ready"
    /\ extracted' = ExtractFnCommand(src, tree, offset, cli.noAstFallback,
                                     extractFunction(src, offset))
    /\ cli' = [cli EXCEPT !.exitCode = IF extracted'.error # "" THEN 1 ELSE 0]
    /\ pc' = "extracted"
    /\ UNCHANGED <<result, src, patchVars, offset, spans, funcStart, diffVars, bst,
                   scopes, tree>>

FallbackNext == CallExtractFn

FallbackSpec == FallbackInit /\ [][FallbackNext]_vars

\* the function-like nodes of the tree whose span contains the offset
FunctionsAround ==
    {n \in SeqToSet(PreOrder(tree)) :
        isFunctionNode(n) /\ n.start <= offset /\ offset < n.end}

\* the fallback has produced the result
FallbackRan ==
    /\ pc = "extracted"
    /\ extracted.error = ""
    /\ "note" \in DOMAIN extracted

\* C28: when state-machine extraction fails and the AST fallback runs, the
\* function it returns is the narrowest function-like node whose span
\* contains the offset, the innermost one when functions are nested.
C28_FallbackNarrowest ==
    FallbackRan /\ FunctionsAround # {} =>
        \E n \in FunctionsAround :
            /\ extracted.start = n.start /\ extracted.end = n.end
            /\ \A o \in FunctionsAround : n.end - n.start <= o.end - o.start

----------------------------------------------------------------------------
(* Functions the buffer does not close (extract-fn.mjs)                     *)

MaxCut == 2

\* buffers that end before the program does: a program without its last
\* characters, with the spans the functions have in the whole program
CutPrograms ==
    {[text |-> SubSeq(prog.text, 1, Len(prog.text) - cut), spans |-> prog.spans] :
        prog \in Programs, cut \in 1..MaxCut}

HorizonInit ==
    /\ pc = "ready"
    /\ result = NoResult
    /\ \E prog \in CutPrograms :
          /\ src = prog.text
          /\ spans = prog.spans
          /\ offset \in 0..(Len(prog.text) - 1)
    /\ funcStart = -1
    /\ extracted = NoResult
    /\ PatchIdle /\ DiffIdle /\ BeautifyIdle /\ ToolIdle

HorizonSpec == HorizonInit /\ [][ExtractNext]_vars

\* where the scan of findFunctionStart stops
Horizon == Min(Len(src), offset + ScanHorizon)

\* the function enclosing the offset is not closed within the horizon
EnclosingUnclosed == Containing # {} /\ Innermost[2] > Horizon

\* C25: if the function enclosing the offset is not closed within the scan
\* horizon min(buffer length, offset + 500000), extraction returns an error
\* and not a span.
C25_UnclosedIsError ==
    (pc = "extracted" /\ EnclosingUnclosed) => extracted.error # ""

====
